---------------------------- MODULE Spec2Model ----------------------------
(***************************************************************************)
(* Model of the date-range API discovery and replay engine                 *)
(* (src/pygen/date_api_extractor.py, class DateAPIExtractor).              *)
(*                                                                         *)
(* Text is modelled as a sequence of one-character strings, so that the    *)
(* regular expressions, substring tests and conversions of the source are  *)
(* computed on characters and not assumed.  A Python dict is a function    *)
(* whose domain is its key set; a Python value is a tagged record:         *)
(*   [t |-> "str", s |-> chars]    a str                                   *)
(*   [t |-> "int", d |-> chars]    an int, d its decimal digits (str(v))   *)
(*   [t |-> "list", l |-> seq]     a list of values                        *)
(* Confidence scores are in hundredths (0.4 is 40), which is exact for     *)
(* every increment the source uses.                                        *)
(***************************************************************************)
EXTENDS Integers, Sequences, FiniteSets, TLC

VARIABLES
    idPc, idParams, idResult, idCandidates,  \* harness of _identify_date_params
    cfPc, cfA, cfB, cfCandA, cfCandB,        \* harness of _calculate_confidence
    anPc, anRequests, anCandidates,          \* harness of analyze_requests
    prPc, prInput, prRaw, prNamed, prPlaceholder,  \* harness of _parse_response
    rpPc, rpCandidate, rpRange, rpReplay,    \* harness of build_replay_url
    fmPc, fmDate, fmFormat, fmText,          \* harness of format_date
    vlPc, vlData, vlReply, vlValidation, vlVerification,  \* harness of _validate_response
    ckPc, ckCandidate, ckRange, ckToday, ckRequest,  \* harness of the clamp in verify_candidate
    ccPc, ccSel, ccEls, ccEl, ccCancel, ccAfter,  \* harness of cancellation at the await points of Layer 2
    cwPc, cwAll, cwApi, cwWindow, cwAnalysed,  \* harness of the capture windows of Layers 2 and 3
    tmPc, tmBrowser, tmLlm, tmLeft, tmBest, tmClicks, tmReplays,  \* harness of the steps of one extraction
    lpPc, lpLayer, lpCandidates, lpIndex, lpBest, lpTried,  \* harness of the verification loop of one layer
    scPc, scConfigs, scServer, scLayer0, scTried, scResult,  \* harness of Layer 0 over the configurations of a scan
    pkPc, pkPicker, pkTried, pkError, pkNew,  \* harness of the date picker strategies of Layer 2
    gsPc, gsUrl, gsWindow, gsResult,  \* harness of the scan script of Layer 0
    browser, llm,                            \* the collaborators of the extractor
    args,                                    \* arguments of extract_with_three_layers
    today,                                   \* the date verify_candidate reads
    pc, started,                             \* position of the call, layers started
    candidates,                              \* self.candidates
    _layer0_result, _layer1_result, _layer2_result, _layer3_result,
    result                                   \* the DateAPIExtractionResult returned

idVars == <<idPc, idParams, idResult, idCandidates>>
cfVars == <<cfPc, cfA, cfB, cfCandA, cfCandB>>
anVars == <<anPc, anRequests, anCandidates>>
prVars == <<prPc, prInput, prRaw, prNamed, prPlaceholder>>
rpVars == <<rpPc, rpCandidate, rpRange, rpReplay>>
fmVars == <<fmPc, fmDate, fmFormat, fmText>>
vlVars == <<vlPc, vlData, vlReply, vlValidation, vlVerification>>
ckVars == <<ckPc, ckCandidate, ckRange, ckToday, ckRequest>>
ccVars == <<ccPc, ccSel, ccEls, ccEl, ccCancel, ccAfter>>
cwVars == <<cwPc, cwAll, cwApi, cwWindow, cwAnalysed>>
tmVars == <<tmPc, tmBrowser, tmLlm, tmLeft, tmBest, tmClicks, tmReplays>>
lpVars == <<lpPc, lpLayer, lpCandidates, lpIndex, lpBest, lpTried>>
scVars == <<scPc, scConfigs, scServer, scLayer0, scTried, scResult>>
pkVars == <<pkPc, pkPicker, pkTried, pkError, pkNew>>
gsVars == <<gsPc, gsUrl, gsWindow, gsResult>>
auxVars == <<fmVars, vlVars, ckVars, ccVars, cwVars, tmVars, lpVars, scVars, pkVars, gsVars>>
callVars == <<browser, llm, args, today>>
layerVars == <<_layer0_result, _layer1_result, _layer2_result, _layer3_result>>
exVars == <<callVars, pc, started, candidates, layerVars, result>>
oldVars == <<idVars, cfVars, anVars, prVars, rpVars, exVars>>
vars == <<oldVars, auxVars>>
fmOthers == <<oldVars, vlVars, ckVars, ccVars, cwVars, tmVars, lpVars, scVars, pkVars, gsVars>>
vlOthers == <<oldVars, fmVars, ckVars, ccVars, cwVars, tmVars, lpVars, scVars, pkVars, gsVars>>
ckOthers == <<oldVars, fmVars, vlVars, ccVars, cwVars, tmVars, lpVars, scVars, pkVars, gsVars>>
ccOthers == <<oldVars, fmVars, vlVars, ckVars, cwVars, tmVars, lpVars, scVars, pkVars, gsVars>>
cwOthers == <<oldVars, fmVars, vlVars, ckVars, ccVars, tmVars, lpVars, scVars, pkVars, gsVars>>
tmOthers == <<oldVars, fmVars, vlVars, ckVars, ccVars, cwVars, lpVars, scVars, pkVars, gsVars>>
lpOthers == <<oldVars, fmVars, vlVars, ckVars, ccVars, cwVars, tmVars, scVars, pkVars, gsVars>>
scOthers == <<oldVars, fmVars, vlVars, ckVars, ccVars, cwVars, tmVars, lpVars, pkVars, gsVars>>
pkOthers == <<oldVars, fmVars, vlVars, ckVars, ccVars, cwVars, tmVars, lpVars, scVars, gsVars>>
gsOthers == <<oldVars, fmVars, vlVars, ckVars, ccVars, cwVars, tmVars, lpVars, scVars, pkVars>>

None == [t |-> "none"]
Str(s) == [t |-> "str", s |-> s]
IntV(d) == [t |-> "int", d |-> d]
ListV(l) == [t |-> "list", l |-> l]
BoolV(b) == [t |-> "bool", b |-> b]

-----------------------------------------------------------------------------
(* Characters and the str methods the source uses *)

UpperChars == <<"A","B","C","D","E","F","G","H","I","J","K","L","M",
                "N","O","P","Q","R","S","T","U","V","W","X","Y","Z">>
LowerChars == <<"a","b","c","d","e","f","g","h","i","j","k","l","m",
                "n","o","p","q","r","s","t","u","v","w","x","y","z">>
DigitChars == <<"0","1","2","3","4","5","6","7","8","9">>

DigitSet == {DigitChars[i] : i \in 1..10}
IsDigit(c) == c \in DigitSet
IsSpace(c) == c = " "

UpperToLower ==
    [c \in {UpperChars[i] : i \in 1..26} |->
        LowerChars[CHOOSE i \in 1..26 : UpperChars[i] = c]]

mapped_char(map, c) == IF c \in DOMAIN map THEN map[c] ELSE c
lower_char(c) == mapped_char(UpperToLower, c)

\* str.lower()
lower(s) == [i \in 1..Len(s) |-> lower_char(s[i])]

\* tok in s
Contains(s, tok) ==
    \E i \in 0..(Len(s) - Len(tok)) : SubSeq(s, i + 1, i + Len(tok)) = tok

\* s.startswith(p), s.endswith(p)
startswith(s, p) == Len(s) >= Len(p) /\ SubSeq(s, 1, Len(p)) = p
endswith(s, p) == Len(s) >= Len(p) /\ SubSeq(s, Len(s) - Len(p) + 1, Len(s)) = p

RECURSIVE lstrip(_)
lstrip(s) == IF s # <<>> /\ IsSpace(Head(s)) THEN lstrip(Tail(s)) ELSE s
RECURSIVE rstrip(_)
rstrip(s) ==
    IF s # <<>> /\ IsSpace(s[Len(s)]) THEN rstrip(SubSeq(s, 1, Len(s) - 1)) ELSE s
\* str.strip()
strip(s) == rstrip(lstrip(s))

-----------------------------------------------------------------------------
(* Regular expressions of the recognizer.  A pattern is a sequence of      *)
(* items: a literal character, "[_-]?" (an optional separator), "\\d" (a   *)
(* digit) or "\\s+" (one or more blanks).                                  *)

OptSep == "[_-]?"
AnyDigit == "\\d"
Blanks == "\\s+"

\* re.match(pattern, s) with (?i): the pattern matches a prefix of s
RECURSIVE re_match_prefix(_, _)
re_match_prefix(pat, s) ==
    IF pat = <<>> THEN TRUE
    ELSE IF Head(pat) = OptSep
    THEN \/ /\ s # <<>>
            /\ Head(s) \in {"_", "-"}
            /\ re_match_prefix(Tail(pat), Tail(s))
         \/ re_match_prefix(Tail(pat), s)
    ELSE /\ s # <<>>
         /\ lower_char(Head(s)) = lower_char(Head(pat))
         /\ re_match_prefix(Tail(pat), Tail(s))

\* re.match('^...$', s): the pattern matches all of s
RECURSIVE re_match_full(_, _)
re_match_full(pat, s) ==
    IF pat = <<>> THEN s = <<>>
    ELSE IF Head(pat) = AnyDigit
    THEN s # <<>> /\ IsDigit(Head(s)) /\ re_match_full(Tail(pat), Tail(s))
    ELSE IF Head(pat) = Blanks
    THEN /\ s # <<>>
         /\ IsSpace(Head(s))
         /\ \/ re_match_full(Tail(pat), Tail(s))
            \/ re_match_full(pat, Tail(s))
    ELSE s # <<>> /\ Head(s) = Head(pat) /\ re_match_full(Tail(pat), Tail(s))

W_start == <<"s","t","a","r","t">>
W_begin == <<"b","e","g","i","n">>
W_from == <<"f","r","o","m">>
W_end == <<"e","n","d">>
W_to == <<"t","o">>
W_date == <<"d","a","t","e">>
W_time == <<"t","i","m","e">>
W_day == <<"d","a","y">>
W_search == <<"s","e","a","r","c","h">>
W_publish == <<"p","u","b","l","i","s","h">>
W_release == <<"r","e","l","e","a","s","e">>
W_create == <<"c","r","e","a","t","e">>
W_se == <<"s","e">>
W_range == <<"r","a","n","g","e">>

DATE_PARAM_PATTERNS == <<
    W_start \o <<OptSep>> \o W_date,
    W_begin \o <<OptSep>> \o W_date,
    W_from \o <<OptSep>> \o W_date,
    W_date \o <<OptSep>> \o W_from,
    W_start \o <<OptSep>> \o W_time,
    W_begin \o <<OptSep>> \o W_time,
    W_search \o W_date,
    W_search \o <<OptSep>> \o W_date,
    W_start \o <<"_">> \o W_date,
    W_begin \o <<"_">> \o W_date,
    W_end \o <<OptSep>> \o W_date,
    W_to \o <<OptSep>> \o W_date,
    W_date \o <<OptSep>> \o W_to,
    W_end \o <<OptSep>> \o W_time,
    W_end \o W_date,
    W_end \o <<OptSep>> \o W_date,
    W_end \o <<"_">> \o W_date,
    W_date,
    W_time,
    W_day,
    W_publish \o <<OptSep>> \o W_date,
    W_release \o <<OptSep>> \o W_date,
    W_create \o <<OptSep>> \o W_date >>

D2 == <<AnyDigit, AnyDigit>>
D4 == D2 \o D2

DATE_VALUE_PATTERNS == <<
    [pattern |-> D4 \o <<"-">> \o D2 \o <<"-">> \o D2, fmt |-> "YYYY-MM-DD"],
    [pattern |-> D4 \o D4, fmt |-> "YYYYMMDD"],
    [pattern |-> D4 \o <<"/">> \o D2 \o <<"/">> \o D2, fmt |-> "YYYY/MM/DD"],
    [pattern |-> D4 \o D4 \o D2, fmt |-> "timestamp_s"],
    [pattern |-> D4 \o D4 \o D4 \o <<AnyDigit>>, fmt |-> "timestamp_ms"],
    [pattern |-> D4 \o <<"-">> \o D2 \o <<"-">> \o D2 \o <<Blanks>> \o D2
                 \o <<":">> \o D2 \o <<":">> \o D2,
     fmt |-> "YYYY-MM-DD HH:MM:SS"] >>

\* the format of the first value pattern s matches, "" when there is none
RECURSIVE first_format(_, _)
first_format(patterns, text) ==
    IF patterns = <<>> THEN ""
    ELSE IF re_match_full(Head(patterns).pattern, text) THEN Head(patterns).fmt
    ELSE first_format(Tail(patterns), text)

value_format(s) == first_format(DATE_VALUE_PATTERNS, strip(s))

\* any(re.match(pattern, key) for pattern in patterns)
any_pattern_matches(patterns, key) ==
    \E i \in 1..Len(patterns) : re_match_prefix(patterns[i], key)

name_matches_date(key) == any_pattern_matches(DATE_PARAM_PATTERNS, key)

_noise_param_names == {
    <<"_">>, <<"_","_">>, <<"_","t">>, <<"t">>, <<"t","s">>,
    <<"t","i","m","e","s","t","a","m","p">>,
    <<"_","t","i","m","e","s","t","a","m","p">>, <<"_","t","s">> }

\* str(value) for a value that is not a list
str_of(v) ==
    IF v.t = "str" THEN v.s
    ELSE IF v.t = "int" THEN v.d
    ELSE <<"N","o","n","e">>

\* the formats of the str items of a list value that match a value pattern,
\* in the order of the items
RECURSIVE date_formats_in_array(_)
date_formats_in_array(l) ==
    IF l = <<>> THEN <<>>
    ELSE LET found(fmt) == IF fmt # "" THEN <<fmt>> ELSE <<>>
         IN found(IF Head(l).t = "str" THEN value_format(Head(l).s) ELSE "")
            \o date_formats_in_array(Tail(l))

LooseArrayTokens == {W_date, W_time, W_se, W_range}
LooseNameTokens == {W_date, W_time, W_day, W_start, W_end, W_begin, W_from, W_to}

\* the default getattr falls back to when the extractor has no noise set
default_noise_param_names == {<<"_">>, <<"_","_">>, <<"_","t">>, <<"t">>, <<"t","s">>}

is_noise_name_default(key_l) == key_l \in default_noise_param_names

\* key_l in getattr(self, "_noise_param_names", ...)
is_noise_name(key_l) == key_l \in _noise_param_names

\* whether _identify_date_params accepts key with this value
accepts_date_param(key, value) ==
    LET accepts(key_l, matches, s) ==
            IF is_noise_name(key_l) THEN FALSE
            ELSE IF value.t = "list"
            THEN /\ date_formats_in_array(value.l) # <<>>
                 /\ \/ matches
                    \/ \E tok \in LooseArrayTokens : Contains(key_l, tok)
            ELSE /\ value_format(s) # ""
                 /\ \/ matches
                    \/ /\ Len(s) >= 8
                       /\ \E tok \in LooseNameTokens : Contains(key_l, tok)
    IN accepts(lower(key), name_matches_date(key),
               IF value.t = "list" THEN <<>> ELSE str_of(value))

\* the format _identify_date_params records for an accepted key
date_param_format(value) ==
    IF value.t = "list" THEN Head(date_formats_in_array(value.l))
    ELSE value_format(str_of(value))

_identify_date_params(params) ==
    LET keys == {k \in DOMAIN params : accepts_date_param(k, params[k])}
    IN [k \in keys |-> date_param_format(params[k])]


-----------------------------------------------------------------------------
(* URLs and captured requests.  A URL is what urlparse makes of its text:  *)
(* [netloc, path, query], query the sequence of <<key, value>> pairs of    *)
(* the query string.  A request is the dict the browser collaborator       *)
(* hands over: [url, method, postData, post_data, resourceType,            *)
(* initiator]; None stands for an absent key (NoType for an absent         *)
(* resourceType).  A request body is                                       *)
(*   [t |-> "json", obj |-> dict]    text json.loads turns into a dict     *)
(*   [t |-> "jsonval"]               text json.loads turns into a non-dict *)
(*   [t |-> "form", pairs |-> seq]   other text, read as a query string    *)

NoType == "<absent>"

Url(netloc, path, query) == [netloc |-> netloc, path |-> path, query |-> query]

\* the values of key k among the pairs, in order, blank values dropped
\* (parse_qs without keep_blank_values)
RECURSIVE qs_values(_, _)
qs_values(pairs, k) ==
    IF pairs = <<>> THEN <<>>
    ELSE LET p == Head(pairs)
             rest == qs_values(Tail(pairs), k)
         IN IF p[1] = k /\ p[2] # <<>> THEN <<Str(p[2])>> \o rest ELSE rest

\* {k: v[0] if len(v) == 1 else v for k, v in parse_qs(query).items()}
flat_qs(pairs) ==
    LET keys == {pairs[i][1] : i \in {j \in 1..Len(pairs) : pairs[j][2] # <<>>}}
        flat(v) == IF Len(v) = 1 THEN v[1] ELSE ListV(v)
    IN [k \in keys |-> flat(qs_values(pairs, k))]

\* d1.update(d2)
dict_update(d1, d2) ==
    [k \in (DOMAIN d1) \cup (DOMAIN d2) |-> IF k \in DOMAIN d2 THEN d2[k] ELSE d1[k]]

EmptyDict == [k \in {} |-> None]

W_query == <<"q","u","e","r","y">>
W_list == <<"l","i","s","t">>
W_find == <<"f","i","n","d">>
W_get == <<"g","e","t">>
W_fetch == <<"f","e","t","c","h">>
W_load == <<"l","o","a","d">>
W_data == <<"d","a","t","a">>
W_api == <<"a","p","i">>
W_dot_do == <<".","d","o">>
W_dot_json == <<".","j","s","o","n">>
W_dot_action == <<".","a","c","t","i","o","n">>
W_bulletin == <<"b","u","l","l","e","t","i","n">>
W_announcement == <<"a","n","n","o","u","n","c","e","m","e","n","t">>
W_disclosure == <<"d","i","s","c","l","o","s","u","r","e">>
W_querycompanybulletin == W_query \o <<"c","o","m","p","a","n","y">> \o W_bulletin

\* API_PATH_PATTERNS: some pattern is found in the path (re.search, re.I)
matches_api_path(path) ==
    \/ \E tok \in {W_query, W_search, W_list, W_find, W_get, W_fetch, W_load,
                   W_data, W_api} : Contains(lower(path), tok)
    \/ \E suf \in {W_dot_do, W_dot_json, W_dot_action} : endswith(lower(path), suf)

BulletinTokens == {W_bulletin, W_announcement, W_disclosure, W_querycompanybulletin}

has_bulletin_token(text) == \E tok \in BulletinTokens : Contains(text, tok)

W_page == <<"p","a","g","e">>
W_pageSize == W_page \o <<"S","i","z","e">>
W_limit == <<"l","i","m","i","t">>
W_offset == <<"o","f","f","s","e","t">>
W_type == <<"t","y","p","e">>
W_category == <<"c","a","t","e","g","o","r","y">>

common_api_params == {W_page, W_pageSize, W_limit, W_offset, W_type, W_category}

Min(a, b) == IF a <= b THEN a ELSE b
Max(a, b) == IF a >= b THEN a ELSE b

\* a score that gives every non-empty set of date parameters the same points
date_count_score_flat(n) == IF n >= 1 THEN 20 ELSE 0

date_count_score(n) == IF n = 2 THEN 40 ELSE IF n = 1 THEN 20 ELSE IF n > 2 THEN 10 ELSE 0

\* the upper bound _calculate_confidence enforces on its own sum
clamp_confidence(c) == Min(c, 100)

_calculate_confidence(url, method, params, date_params) ==
    LET lowered(names) == {lower(k) : k \in names}
        penalty(keys_l) ==
            IF keys_l # {} /\ keys_l \subseteq _noise_param_names THEN 50 ELSE 0
        pathScore(path) ==
            (IF matches_api_path(path) THEN 10 ELSE 0)
            + (IF has_bulletin_token(path) THEN 20 ELSE 0)
        common(paramKeys) ==
            Cardinality(lowered(common_api_params) \cap paramKeys)
        post == IF method = "POST" THEN 10 ELSE 0
    IN clamp_confidence(date_count_score(Cardinality(DOMAIN date_params))
                        - penalty(lowered(DOMAIN date_params))
                        + pathScore(lower(url.path))
                        + 5 * common(lowered(DOMAIN params)) + post)

\* a DateAPICandidate
Candidate(url, method, params, date_params, confidence, resource_type) ==
    [url |-> url, method |-> method, params |-> params, date_params |-> date_params,
     confidence |-> confidence, resource_type |-> resource_type,
     is_verified |-> FALSE, verification_result |-> EmptyDict]

\* the body parameters _analyze_single_request merges into the query's
body_params(req) ==
    LET post_data == req.postData
    IN IF post_data = None \/ req.method # "POST" THEN EmptyDict
       ELSE IF post_data.t = "json" THEN post_data.obj
       ELSE IF post_data.t = "form" THEN flat_qs(post_data.pairs)
       ELSE EmptyDict

\* None when the request has no URL or no date parameter
_analyze_single_request(req) ==
    IF req.url = None THEN None
    ELSE LET candidate_of(flat_params, date_params) ==
                 IF DOMAIN date_params = {} THEN None
                 ELSE Candidate(req.url, req.method, flat_params, date_params,
                                _calculate_confidence(req.url, req.method, flat_params,
                                                      date_params),
                                IF req.resourceType = NoType THEN "unknown"
                                ELSE req.resourceType)
             analyzed(flat_params) ==
                 candidate_of(flat_params, _identify_date_params(flat_params))
         IN analyzed(dict_update(flat_qs(req.url.query), body_params(req)))

W_click == <<"c","l","i","c","k">>
W_change == <<"c","h","a","n","g","e">>
W_submit == <<"s","u","b","m","i","t">>
W_on == <<"o","n">>
W_handle == <<"h","a","n","d","l","e">>
W_datepicker == W_date \o <<"p","i","c","k","e","r">>
W_laydate == <<"l","a","y">> \o W_date
W_calendar == <<"c","a","l","e","n","d","a","r">>
W_set == <<"s","e","t">>
W_interval == <<"i","n","t","e","r","v","a","l">>
W_timeout == W_time \o <<"o","u","t">>
W_heartbeat == <<"h","e","a","r","t","b","e","a","t">>
W_ping == <<"p","i","n","g">>
W_beacon == <<"b","e","a","c","o","n">>
W_analytics == <<"a","n","a","l","y","t","i","c","s">>
W_tracker == <<"t","r","a","c","k","e","r">>
W_log == <<"l","o","g">>
W_monitor == <<"m","o","n","i","t","o","r">>

interaction_keywords == {
    W_click, W_change, W_submit, W_search, W_query, W_on \o W_change, W_on \o W_click,
    W_handle \o W_click, W_handle \o W_change, W_datepicker, W_laydate, W_calendar }

noise_keywords == {
    W_set \o W_interval, W_set \o W_timeout, W_heartbeat, W_ping, W_beacon,
    W_analytics, W_tracker, W_log, W_monitor }

\* ' '.join(f"{functionName}@{file}" for f in frames[:5]).lower(); a frame is
\* [functionName, file], file the last segment of the frame's URL
RECURSIVE join_frames(_)
join_frames(frames) ==
    IF frames = <<>> THEN <<>>
    ELSE LET f == Head(frames)
             one == f.functionName \o <<"@">> \o f.file
         IN IF Tail(frames) = <<>> THEN one
            ELSE one \o <<" ">> \o join_frames(Tail(frames))

stack_info_of(initiator) ==
    lower(join_frames(SubSeq(initiator.frames, 1, Min(5, Len(initiator.frames)))))

\* the change _apply_initiator_bonus makes to the confidence
initiator_bonus(req) ==
    IF req.initiator = None THEN 0
    ELSE LET stack_bonus(stack_info) ==
                 (IF \E kw \in interaction_keywords : Contains(stack_info, kw)
                  THEN 15 ELSE 0)
                 - (IF \E kw \in noise_keywords : Contains(stack_info, kw)
                    THEN 20 ELSE 0)
         IN stack_bonus(stack_info_of(req.initiator))
            - (IF req.initiator.type \in {"preload", "preflight", "other"} THEN 10 ELSE 0)

_apply_initiator_bonus(candidate, req) ==
    [candidate EXCEPT !.confidence = @ + initiator_bonus(req)]

\* the bonus analyze_requests gives a candidate of the API subset
api_subset_bonus(candidate) == [candidate EXCEPT !.confidence = @ + 20]

\* the first loop of analyze_requests
RECURSIVE analyze_api_requests(_)
analyze_api_requests(reqs) ==
    IF reqs = <<>> THEN <<>>
    ELSE LET kept(c) ==
                 IF c = None THEN <<>>
                 ELSE <<_apply_initiator_bonus(api_subset_bonus(c), Head(reqs))>>
         IN kept(_analyze_single_request(Head(reqs)))
            \o analyze_api_requests(Tail(reqs))

accepted_resource_types == {"xhr", "fetch", "script", "document", ""}

\* resource_type.lower() of the declared types the model uses
lower_resource_type(rt) ==
    CASE rt = "XHR" -> "xhr"
      [] rt = "Fetch" -> "fetch"
      [] rt = "Script" -> "script"
      [] rt = "Document" -> "document"
      [] rt = "Image" -> "image"
      [] rt = "Stylesheet" -> "stylesheet"
      [] OTHER -> rt

\* whether the second loop of analyze_requests skips the request for its type
skipped_by_resource_type(req) ==
    /\ req.resourceType # NoType
    /\ req.resourceType # ""
    /\ lower_resource_type(req.resourceType) \notin accepted_resource_types

\* the second loop of analyze_requests: acc the candidates so far
RECURSIVE analyze_all_requests(_, _)
analyze_all_requests(reqs, acc) ==
    IF reqs = <<>> THEN acc
    ELSE LET req == Head(reqs)
             analyzed_urls == {acc[i].url : i \in 1..Len(acc)}
             with_candidate(c) ==
                 IF req.url \in analyzed_urls \/ skipped_by_resource_type(req) \/ c = None
                 THEN acc
                 ELSE Append(acc, _apply_initiator_bonus(c, req))
         IN analyze_all_requests(Tail(reqs),
                                 with_candidate(_analyze_single_request(req)))

\* list.sort(key=confidence, reverse=True): stable, descending
RECURSIVE insert_by_confidence(_, _)
insert_by_confidence(sorted, c) ==
    IF sorted = <<>> THEN <<c>>
    ELSE IF Head(sorted).confidence >= c.confidence
    THEN <<Head(sorted)>> \o insert_by_confidence(Tail(sorted), c)
    ELSE <<c>> \o sorted

RECURSIVE sort_by_confidence(_)
sort_by_confidence(cs) ==
    IF cs = <<>> THEN <<>>
    ELSE insert_by_confidence(sort_by_confidence(SubSeq(cs, 1, Len(cs) - 1)), cs[Len(cs)])

\* network_requests is [all_requests, api_requests]
analyze_requests(network_requests) ==
    sort_by_confidence(
        analyze_all_requests(network_requests.all_requests,
                             analyze_api_requests(network_requests.api_requests)))


-----------------------------------------------------------------------------
(* Response interpreter: _parse_response *)

Dict(obj) == [t |-> "dict", obj |-> obj]

K_a == <<"a">>
J_empty_object == <<"{","}">>
J_a_1 == <<"{","\"","a","\"",":","1","}">>
J_a_paren == <<"{","\"","a","\"",":","\"",")","\"","}">>

\* the longest data list of a reply
MaxItems == 2

\* "1,1,...,1" with n items
RECURSIVE json_items(_)
json_items(n) ==
    IF n = 0 THEN <<>>
    ELSE IF n = 1 THEN <<"1">>
    ELSE <<"1", ",">> \o json_items(n - 1)

\* {"data":[1,...,1]} with n items
J_data(n) == <<"{","\"","d","a","t","a","\"",":","[">> \o json_items(n) \o <<"]","}">>

\* {"success":false,"data":[1]} and {"code":500,"data":[1]}
J_success_false ==
    <<"{","\"","s","u","c","c","e","s","s","\"",":","f","a","l","s","e",",",
      "\"","d","a","t","a","\"",":","[","1","]","}">>
J_code_500 ==
    <<"{","\"","c","o","d","e","\"",":","5","0","0",",",
      "\"","d","a","t","a","\"",":","[","1","]","}">>

\* what json.loads returns for the JSON texts the model knows, as <<text, value>>
JsonTexts ==
    { <<J_empty_object, Dict(EmptyDict)>>,
      <<J_success_false,
        Dict([k \in {<<"s","u","c","c","e","s","s">>, <<"d","a","t","a">>} |->
                 IF k = <<"d","a","t","a">> THEN ListV(<<IntV(<<"1">>)>>)
                 ELSE BoolV(FALSE)])>>,
      <<J_code_500,
        Dict([k \in {<<"c","o","d","e">>, <<"d","a","t","a">>} |->
                 IF k = <<"d","a","t","a">> THEN ListV(<<IntV(<<"1">>)>>)
                 ELSE IntV(<<"5","0","0">>)])>>,
      <<J_a_1, Dict([k \in {K_a} |-> IntV(<<"1">>)])>>,
      <<J_a_paren, Dict([k \in {K_a} |-> Str(<<")">>)])>>,
      <<<<"1">>, IntV(<<"1">>)>> }
    \cup { <<J_data(n), Dict([k \in {<<"d","a","t","a">>} |->
                                ListV([i \in 1..n |-> IntV(<<"1">>)])])>> :
              n \in 0..MaxItems }

JsonError == [t |-> "JSONDecodeError"]

\* json.loads: blanks around the text are skipped, any other text is an error
json_loads(text) ==
    LET loaded(texts, stripped) ==
            IF \E e \in texts : e[1] = stripped
            THEN (CHOOSE e \in texts : e[1] = stripped)[2]
            ELSE JsonError
    IN loaded(JsonTexts, strip(text))

LetterSet == {UpperChars[i] : i \in 1..26} \cup {LowerChars[i] : i \in 1..26}
IsIdentStart(c) == c \in LetterSet \cup {"_"}
IsIdentChar(c) == c \in LetterSet \cup DigitSet \cup {"_"}

\* the length of the longest prefix of s made of characters satisfying the test;
\* the tests are IsIdentChar and IsSpace
RECURSIVE ident_run(_)
ident_run(s) == IF s # <<>> /\ IsIdentChar(Head(s)) THEN 1 + ident_run(Tail(s)) ELSE 0
RECURSIVE space_run(_)
space_run(s) == IF s # <<>> /\ IsSpace(Head(s)) THEN 1 + space_run(Tail(s)) ELSE 0

\* \s*;?\s*$ matches all of s
is_jsonp_tail(s) ==
    LET t == lstrip(s)
    IN t = <<>> \/ (Head(t) = ";" /\ lstrip(Tail(t)) = <<>>)

\* re.match(r'^[a-zA-Z_][a-zA-Z0-9_]*\s*\((.*)\)\s*;?\s*$', text, re.S):
\* group(1) as <<TRUE, group>>, or <<FALSE, <<>>>> when there is no match.  The
\* greedy group ends at the last ")" of the text.
jsonp_match(text) ==
    LET last(closes) == IF closes = {} THEN 0
                        ELSE CHOOSE i \in closes : \A j \in closes : j <= i
        group(open, close) ==
            IF /\ text # <<>>
               /\ IsIdentStart(Head(text))
               /\ open <= Len(text)
               /\ text[open] = "("
               /\ close > open
               /\ is_jsonp_tail(SubSeq(text, close + 1, Len(text)))
            THEN <<TRUE, SubSeq(text, open + 1, close - 1)>>
            ELSE <<FALSE, <<>>>>
        after_name(n) ==
            group(n + space_run(SubSeq(text, n + 1, Len(text))) + 1,
                  last({i \in 1..Len(text) : text[i] = ")"}))
    IN after_name(ident_run(text))

CommentPrefix == <<"/","*","*","/">>

\* if text.startswith('/**/'): text = text[4:].strip()
strip_comment_prefix(text) ==
    IF startswith(text, CommentPrefix) THEN strip(SubSeq(text, 5, Len(text))) ELSE text

\* a faulty variant of unwrap_placeholder: the ?(...) form is not unwrapped
unwrap_placeholder_absent(text) == text

\* if text.startswith('?(') and text.endswith(')'): text = text[2:-1]
unwrap_placeholder(text) ==
    IF startswith(text, <<"?","(">>) /\ endswith(text, <<")">>)
    THEN SubSeq(text, 3, Len(text) - 1)
    ELSE text

unwrap_jsonp(text) ==
    LET group_of(match) == IF match[1] THEN match[2] ELSE text
    IN group_of(jsonp_match(text))

\* None when json.loads raises
_parse_response(text) ==
    LET parsed(loaded) == IF loaded = JsonError THEN None ELSE loaded
    IN parsed(json_loads(
                  unwrap_jsonp(unwrap_placeholder(strip_comment_prefix(strip(text))))))

-----------------------------------------------------------------------------
(* Dates: format_date *)

\* the pieces of s between the "-" characters
RECURSIVE split_dash(_)
split_dash(s) ==
    IF \A i \in 1..Len(s) : s[i] # "-" THEN <<s>>
    ELSE LET i == CHOOSE i \in 1..Len(s) : s[i] = "-" /\ \A j \in 1..(i - 1) : s[j] # "-"
         IN <<SubSeq(s, 1, i - 1)>> \o split_dash(SubSeq(s, i + 1, Len(s)))

digit_value(c) == (CHOOSE i \in 1..10 : DigitChars[i] = c) - 1

RECURSIVE int_of(_)
int_of(ds) ==
    IF ds = <<>> THEN 0 ELSE 10 * int_of(SubSeq(ds, 1, Len(ds) - 1)) + digit_value(ds[Len(ds)])

\* str(n) for n >= 0
RECURSIVE str_int(_)
str_int(n) ==
    IF n < 10 THEN <<DigitChars[n + 1]>> ELSE str_int(n \div 10) \o <<DigitChars[(n % 10) + 1]>>

all_digits(s) == \A i \in 1..Len(s) : IsDigit(s[i])

\* %Y of strptime: \d\d\d\d
is_strptime_year(s) == Len(s) = 4 /\ all_digits(s)

\* %m of strptime: 1[0-2]|0[1-9]|[1-9]
is_strptime_month(s) ==
    /\ Len(s) \in {1, 2}
    /\ all_digits(s)
    /\ int_of(s) \in 1..12

\* %d of strptime: 3[01]|[12]\d|0[1-9]|[1-9]| [1-9]
is_strptime_day(s) ==
    \/ Len(s) \in {1, 2} /\ all_digits(s) /\ int_of(s) \in 1..31
    \/ Len(s) = 2 /\ s[1] = " " /\ IsDigit(s[2]) /\ s[2] # "0"

is_leap(y) == (y % 4 = 0 /\ y % 100 # 0) \/ y % 400 = 0

days_in_month(y, m) ==
    IF m = 2 THEN (IF is_leap(y) THEN 29 ELSE 28)
    ELSE IF m \in {4, 6, 9, 11} THEN 30 ELSE 31

NoDate == [ok |-> FALSE]

\* datetime.strptime(date_str, '%Y-%m-%d'); NoDate stands for ValueError
strptime_ymd(date_str) ==
    LET date_of(y, m, d) ==
            IF y >= 1 /\ d <= days_in_month(y, m)
            THEN [ok |-> TRUE, y |-> y, m |-> m, d |-> d]
            ELSE NoDate
        parsed(parts) ==
            IF /\ Len(parts) = 3
               /\ is_strptime_year(parts[1])
               /\ is_strptime_month(parts[2])
               /\ is_strptime_day(parts[3])
            THEN date_of(int_of(parts[1]), int_of(parts[2]), int_of(lstrip(parts[3])))
            ELSE NoDate
    IN parsed(split_dash(date_str))

\* n in decimal, padded with zeros to the given width
RECURSIVE zero_pad(_, _)
zero_pad(ds, width) == IF Len(ds) >= width THEN ds ELSE zero_pad(<<"0">> \o ds, width)

pad2(n) == zero_pad(str_int(n), 2)
pad4(n) == zero_pad(str_int(n), 4)

\* days from 1970-01-01 to the civil date
days_from_civil(y, m, d) ==
    LET yy == IF m <= 2 THEN y - 1 ELSE y
        era == yy \div 400
        yoe == yy - era * 400
        mp == IF m > 2 THEN m - 3 ELSE m + 9
        doy == (153 * mp + 2) \div 5 + d - 1
        doe == yoe * 365 + yoe \div 4 - yoe \div 100 + doy
    IN era * 146097 + doe - 719468

\* the offset of the process's local time from UTC, in seconds (UTC+8)
local_utc_offset == 8 * 3600

\* int(dt.timestamp()) of the naive local midnight dt
timestamp_of(dt) == days_from_civil(dt.y, dt.m, dt.d) * 86400 - local_utc_offset

strftime_joined(dt, sep) == pad4(dt.y) \o sep \o pad2(dt.m) \o sep \o pad2(dt.d)

Midnight == <<" ","0","0",":","0","0",":","0","0">>

format_date(date_str, target_format) ==
    LET sep == IF target_format = "YYYYMMDD" THEN <<>>
               ELSE IF target_format = "YYYY/MM/DD" THEN <<"/">>
               ELSE <<"-">>
        formatted(dt) ==
            IF ~dt.ok THEN date_str
            ELSE IF target_format \in {"YYYY-MM-DD", "YYYYMMDD", "YYYY/MM/DD"}
                 THEN strftime_joined(dt, sep)
            ELSE IF target_format = "timestamp_s" THEN str_int(timestamp_of(dt))
            ELSE IF target_format = "timestamp_ms"
                 THEN str_int(timestamp_of(dt)) \o <<"0","0","0">>
            ELSE IF target_format = "YYYY-MM-DD HH:MM:SS"
                 THEN strftime_joined(dt, <<"-">>) \o Midnight
            ELSE date_str
    IN formatted(strptime_ymd(date_str))

-----------------------------------------------------------------------------
(* Replay construction: build_replay_url *)

W_sedate == <<"s","e","d","a","t","e">>
W_daterange == <<"d","a","t","e","r","a","n","g","e">>
W_date_range == <<"d","a","t","e","_","r","a","n","g","e">>
K_jsonCallBack == <<"j","s","o","n","C","a","l","l","B","a","c","k">>
K_callback == <<"c","a","l","l","b","a","c","k">>
V_jsonCallback == <<"j","s","o","n","C","a","l","l","b","a","c","k">>
K_pageHelp_pageNo == <<"p","a","g","e","H","e","l","p",".","p","a","g","e","N","o">>
K_pageHelp_pageSize ==
    <<"p","a","g","e","H","e","l","p",".","p","a","g","e","S","i","z","e">>
K_page_no == <<"p","a","g","e","N","o">>
K_page_size == <<"p","a","g","e","S","i","z","e">>
Host_sse == <<"s","s","e",".","c","o","m",".","c","n">>

K_seDate_name == <<"s","e","D","a","t","e">>

ArrayDateNames == {W_sedate, W_daterange, W_date_range}
StartWords == {W_start, W_begin, W_from}
EndWords == {W_end, W_to}

\* a faulty variant of replaces_with_array: only the range-like names give an array
replaces_with_array_by_name(original_value, name_lower) == name_lower \in ArrayDateNames

\* isinstance(original_value, list) or name_lower in ('sedate', ...)
replaces_with_array(original_value, name_lower) ==
    original_value.t = "list" \/ name_lower \in ArrayDateNames

\* the value build_replay_url writes for one date parameter
replayed_value(candidate, param_name, start_date, end_date) ==
    LET date_format == candidate.date_params[param_name]
        original_value == IF param_name \in DOMAIN candidate.params
                          THEN candidate.params[param_name] ELSE None
        value(name_lower, formatted) ==
            IF replaces_with_array(original_value, name_lower)
            THEN ListV(<<formatted[start_date], formatted[end_date]>>)
            ELSE IF \E kw \in StartWords : Contains(name_lower, kw)
            THEN formatted[start_date]
            ELSE IF \E kw \in EndWords : Contains(name_lower, kw)
            THEN formatted[end_date]
            ELSE formatted[start_date]
    IN value(lower(param_name),
             [d \in {start_date, end_date} |-> Str(format_date(d, date_format))])

with_dates(candidate, start_date, end_date) ==
    [k \in (DOMAIN candidate.params) \cup (DOMAIN candidate.date_params) |->
        IF k \in DOMAIN candidate.date_params
        THEN replayed_value(candidate, k, start_date, end_date)
        ELSE candidate.params[k]]

\* d[k] = v
dict_set(d, k, v) == [j \in (DOMAIN d) \cup {k} |-> IF j = k THEN v ELSE d[j]]

with_callback(candidate, params) ==
    LET for_host(fixed) ==
            IF /\ Contains(lower(candidate.url.netloc), Host_sse)
               /\ K_jsonCallBack \notin DOMAIN fixed
               /\ K_callback \notin DOMAIN fixed
            THEN dict_set(fixed, K_jsonCallBack, Str(V_jsonCallback))
            ELSE fixed
    IN for_host([k \in DOMAIN params |->
                    IF k \in {K_jsonCallBack, K_callback} THEN Str(V_jsonCallback)
                    ELSE params[k]])

with_paging(params) ==
    LET with_size(with_no) ==
            IF K_pageHelp_pageSize \notin DOMAIN with_no /\ K_page_size \notin DOMAIN with_no
            THEN dict_set(with_no, K_pageHelp_pageSize, Str(<<"2","5">>))
            ELSE with_no
    IN with_size(IF K_pageHelp_pageNo \notin DOMAIN params /\ K_page_no \notin DOMAIN params
                 THEN dict_set(params, K_pageHelp_pageNo, Str(<<"1">>))
                 ELSE params)

\* quote_plus of the characters the model uses; the others are safe
QuotePlus ==
    [c \in {" ", ":", "/"} |->
        IF c = " " THEN <<"+">>
        ELSE IF c = ":" THEN <<"%","3","A">>
        ELSE <<"%","2","F">>]

RECURSIVE quote_plus(_)
quote_plus(s) ==
    IF s = <<>> THEN <<>>
    ELSE (IF Head(s) \in DOMAIN QuotePlus THEN QuotePlus[Head(s)] ELSE <<Head(s)>>)
         \o quote_plus(Tail(s))

\* the pairs urlencode(..., doseq=True) writes for one key
RECURSIVE encoded_pairs(_, _)
encoded_pairs(k, items) ==
    IF items = <<>> THEN <<>>
    ELSE <<<<quote_plus(k), quote_plus(str_of(Head(items)))>>>> \o encoded_pairs(k, Tail(items))

\* urlencode(params, doseq=True): a list value gives one pair per item.  The
\* order of the keys of a dict is not modelled; the pairs of the keys come in
\* a fixed order.
RECURSIVE urlencode_keys(_, _)
urlencode_keys(params, keys) ==
    IF keys = {} THEN <<>>
    ELSE LET k == CHOOSE k \in keys : TRUE
             v == params[k]
         IN (IF v.t = "list" THEN encoded_pairs(k, v.l) ELSE encoded_pairs(k, <<v>>))
            \o urlencode_keys(params, keys \ {k})

urlencode(params) == urlencode_keys(params, DOMAIN params)

\* (new_url, post_body) as [url, body]
build_replay_url(candidate, start_date, end_date) ==
    LET replay(new_params) ==
            IF candidate.method = "GET"
            THEN [url |-> Url(candidate.url.netloc, candidate.url.path,
                              urlencode(new_params)),
                  body |-> EmptyDict]
            ELSE [url |-> candidate.url, body |-> new_params]
    IN replay(with_paging(with_callback(candidate,
                                        with_dates(candidate, start_date, end_date))))

-----------------------------------------------------------------------------
(* Response validation: _validate_response.  A parsed JSON value is one of *)
(* None, Str, IntV, BoolV, ListV and Dict.  Messages are rendered in       *)
(* English.                                                                *)

K_success == <<"s","u","c","c","e","s","s">>
K_message == <<"m","e","s","s","a","g","e">>
K_error == <<"e","r","r","o","r">>
K_code == <<"c","o","d","e">>
K_data == <<"d","a","t","a">>
K_result == <<"r","e","s","u","l","t">>
K_list == <<"l","i","s","t">>
K_items == <<"i","t","e","m","s">>
K_records == <<"r","e","c","o","r","d","s">>
K_rows == <<"r","o","w","s">>
K_content == <<"c","o","n","t","e","n","t">>
K_reports == <<"r","e","p","o","r","t","s">>
K_articles == <<"a","r","t","i","c","l","e","s">>
K_pageHelp == <<"p","a","g","e","H","e","l","p">>
K_total == <<"t","o","t","a","l">>

data_keys == <<K_data, K_result, K_list, K_items, K_records, K_rows, K_content,
               K_reports, K_articles>>

\* d.get(k), None when the key is absent
dict_get(d, k) == IF k \in DOMAIN d THEN d[k] ELSE None

\* bool(v)
truthy(v) ==
    IF v.t = "str" THEN v.s # <<>>
    ELSE IF v.t = "int" THEN int_of(v.d) # 0
    ELSE IF v.t = "bool" THEN v.b
    ELSE IF v.t = "list" THEN v.l # <<>>
    ELSE IF v.t = "dict" THEN DOMAIN v.obj # {}
    ELSE FALSE

\* a faulty variant of code_accepted: every code is accepted
code_accepted_any(v) == TRUE

\* code in (None, 0, 200, '0', '200', 'success')
code_accepted(v) ==
    \/ v = None
    \/ v.t = "int" /\ int_of(v.d) \in {0, 200}
    \/ v.t = "bool" /\ ~v.b
    \/ v.t = "str" /\ v.s \in {<<"0">>, <<"2","0","0">>, K_success}

\* the length of the first list among the data keys of a nested dict, -1
\* when there is none (the inner loop of _validate_response)
RECURSIVE sub_list_len(_, _)
sub_list_len(value, i) ==
    IF i > Len(data_keys) THEN -1
    ELSE IF data_keys[i] \in DOMAIN value /\ value[data_keys[i]].t = "list"
    THEN Len(value[data_keys[i]].l)
    ELSE sub_list_len(value, i + 1)

\* the outer loop over data_keys from index i with the count so far: a list
\* ends the loop, a dict with a nested list sets the count and the loop goes on
RECURSIVE count_data(_, _, _)
count_data(data, i, data_count) ==
    IF i > Len(data_keys) THEN data_count
    ELSE IF data_keys[i] \notin DOMAIN data THEN count_data(data, i + 1, data_count)
    ELSE LET nested(n) == IF n >= 0 THEN n ELSE data_count
             counted(value) ==
                 IF value.t = "list" THEN Len(value.l)
                 ELSE count_data(data, i + 1,
                                 nested(IF value.t = "dict"
                                        THEN sub_list_len(value.obj, 1) ELSE -1))
         IN counted(data[data_keys[i]])

PageHelpCap == 100

\* the count after the pageHelp block
page_help_count(data, data_count) ==
    IF K_pageHelp \notin DOMAIN data \/ data[K_pageHelp].t # "dict" THEN data_count
    ELSE LET with_list(data_list) ==
                 IF data_list.t = "list" THEN Max(data_count, Len(data_list.l))
                 ELSE data_count
             total_n(total) ==
                 IF total.t = "int" THEN int_of(total.d)
                 ELSE IF total.t = "bool" /\ total.b THEN 1 ELSE 0
             capped(listed, n) ==
                 IF n > 0 THEN Max(listed, Min(n, PageHelpCap)) ELSE listed
             counted(page_help) ==
                 capped(with_list(IF K_data \in DOMAIN page_help THEN page_help[K_data]
                                  ELSE ListV(<<>>)),
                        total_n(IF K_total \in DOMAIN page_help THEN page_help[K_total]
                                ELSE IntV(<<"0">>)))
         IN counted(data[K_pageHelp].obj)

Validation(is_valid, data_count, error) ==
    [is_valid |-> is_valid, data_count |-> data_count, error |-> error]

ErrNone == "<None>"

\* the message of the success=false branch: message, else error, else the default
failure_message(data) ==
    IF truthy(dict_get(data, K_message)) THEN "API message"
    ELSE IF truthy(dict_get(data, K_error)) THEN "API error"
    ELSE "API returned success=false"

_validate_response(data) ==
    LET rejected_code(code) == ~code_accepted(code) /\ truthy(code)
        counted(data_count) ==
            IF data_count = 0
            THEN Validation(FALSE, 0, "no data list in the response or the list is empty")
            ELSE Validation(TRUE, data_count, ErrNone)
    IN IF data = None THEN Validation(FALSE, 0, "cannot parse the response as JSON")
       ELSE IF data.t # "dict" THEN Validation(FALSE, 0, "the response is not an object")
       ELSE IF dict_get(data.obj, K_success) = BoolV(FALSE)
       THEN Validation(FALSE, 0, failure_message(data.obj))
       ELSE IF rejected_code(dict_get(data.obj, K_code))
       THEN Validation(FALSE, 0, "API returned an error code")
       ELSE counted(page_help_count(data.obj, count_data(data.obj, 1, 0)))

-----------------------------------------------------------------------------
(* Verification: verify_candidate.  The reply of the HTTP collaborator is  *)
(*   [kind |-> "exception"]                the request raised              *)
(*   [kind |-> "status", code |-> n]       a status other than 200         *)
(*   [kind |-> "text", text |-> chars]     status 200 with this body       *)

\* the characters of the model in the order of their code points
CodePointOrder ==
    <<" ", "\"", "%", "(", ")", "*", "+", ",", "-", ".", "/">> \o DigitChars
    \o <<":", ";", "<", "?">> \o UpperChars \o <<"[", "]", "_">> \o LowerChars \o <<"{", "}">>

code_point(c) == CHOOSE i \in 1..Len(CodePointOrder) : CodePointOrder[i] = c

\* a < b for str
RECURSIVE str_lt(_, _)
str_lt(a, b) ==
    IF b = <<>> THEN FALSE
    ELSE IF a = <<>> THEN TRUE
    ELSE IF Head(a) = Head(b) THEN str_lt(Tail(a), Tail(b))
    ELSE code_point(Head(a)) < code_point(Head(b))

\* a faulty variant of str_min: the first argument, whatever the second is
str_min_first(a, b) == a

\* min(a, b) for str
str_min(a, b) == IF str_lt(b, a) THEN b ELSE a

\* effective_end = min(end_date, today_str) if end_date > today_str else end_date
effective_end(end_date, today_str) ==
    IF str_lt(today_str, end_date) THEN str_min(end_date, today_str) ELSE end_date

\* effective_start = min(start_date, effective_end)
effective_start(start_date, end_date, today_str) ==
    str_min(start_date, effective_end(end_date, today_str))

\* the request verify_candidate sends
verification_request(candidate, start_date, end_date, today_str) ==
    build_replay_url(candidate, effective_start(start_date, end_date, today_str),
                     effective_end(end_date, today_str))

Verification(success, data_count, error, parsed_data) ==
    [success |-> success, data_count |-> data_count, error |-> error,
     parsed_data |-> parsed_data]

\* the dict verify_candidate returns for a reply; a key the source leaves out
\* reads as None
verify_candidate(candidate, start_date, end_date, today_str, reply) ==
    IF reply.kind = "exception" THEN Verification(FALSE, 0, "request failed", None)
    ELSE IF reply.kind = "status" THEN Verification(FALSE, 0, "HTTP status", None)
    ELSE LET verified(data, v) ==
                 Verification(v.is_valid, v.data_count, v.error,
                              IF v.is_valid THEN data ELSE None)
             validated(data) == verified(data, _validate_response(data))
         IN validated(_parse_response(reply.text))

-----------------------------------------------------------------------------
(* Sanity filter: _looks_like_real_date_filter *)

W_commonquery == <<"c","o","m","m","o","n","q","u","e","r","y">>
DateishTokens == {W_start, W_begin, W_from, W_end, W_to, W_date, W_time, W_day}

\* tok in url.lower(), looked for in the host, the path and the query's
\* keys and values
url_parts(url) ==
    {url.netloc, url.path} \cup {url.query[i][1] : i \in 1..Len(url.query)}
    \cup {url.query[i][2] : i \in 1..Len(url.query)}

url_contains(url, tok) == \E part \in url_parts(url) : Contains(lower(part), tok)

_is_dateish_name(k) ==
    LET dateish(kl) ==
            /\ kl \notin _noise_param_names
            /\ \E tok \in DateishTokens : Contains(kl, tok)
    IN dateish(lower(k))

_looks_like_real_date_filter(candidate) ==
    LET keys == DOMAIN candidate.date_params
        url_has(tokens) == \E tok \in tokens : url_contains(candidate.url, tok)
        checked(non_noise_keys, has_dateish_name, looks_like_bulletin_api, common_query) ==
            IF keys = {} THEN FALSE
            ELSE IF non_noise_keys = {} THEN FALSE
            ELSE IF common_query /\ ~looks_like_bulletin_api /\ ~has_dateish_name
            THEN FALSE
            ELSE IF looks_like_bulletin_api THEN TRUE
            ELSE has_dateish_name
        with_keys(non_noise_keys, hits) ==
            checked(non_noise_keys, \E k \in non_noise_keys : _is_dateish_name(k),
                    hits[1], hits[2])
    IN with_keys({k \in keys : lower(k) \notin _noise_param_names},
                 [i \in 1..2 |-> url_has(IF i = 1 THEN BulletinTokens
                                         ELSE {W_commonquery})])

-----------------------------------------------------------------------------
(* Layer 0: runtime configuration.  An API URL found in the page is        *)
(* [form, url]: form tells how its text starts ("absolute" for http...,    *)
(* "scheme_relative" for //host/..., "path" for /..., "other"), url is     *)
(* what urlparse makes of it.  A configuration is the dict the in-page     *)
(* scan or the hook analysis builds.                                       *)

ApiUrl(form, url) == [form |-> form, url |-> url]

Config(var_name, api_url, date_params, all_params, date_format, is_jsonp, source) ==
    [var_name |-> var_name, api_url |-> api_url, date_params |-> date_params,
     all_params |-> all_params, date_format |-> date_format, is_jsonp |-> is_jsonp,
     extra_info |-> [source |-> source]]

W_history == <<"h","i","s","t","o","r","y">>
W_annlist == <<"a","n","n","l","i","s","t">>
W_url == <<"u","r","l">>
W_template == <<"t","e","m","p","l","a","t","e">>
W_selector == <<"s","e","l","e","c","t","o","r">>
W_element == <<"e","l","e","m","e","n","t">>
W_container == <<"c","o","n","t","a","i","n","e","r">>
W_target == <<"t","a","r","g","e","t">>
W_http == <<"h","t","t","p">>

ConfigFieldTokens == {W_url, W_template, W_selector, W_element, W_container, W_target}

\* the values of key k among the pairs, blank values kept
RECURSIVE qs_values_keep_blank(_, _)
qs_values_keep_blank(pairs, k) ==
    IF pairs = <<>> THEN <<>>
    ELSE (IF Head(pairs)[1] = k THEN <<Str(Head(pairs)[2])>> ELSE <<>>)
         \o qs_values_keep_blank(Tail(pairs), k)

\* the parameters read from the query string of the configured URL; a JSONP
\* placeholder "?" becomes the fixed callback name
url_query_params(pairs) ==
    [k \in {pairs[i][1] : i \in 1..Len(pairs)} |->
        LET read(v_list) ==
                IF k \in {K_jsonCallBack, K_callback} /\ v_list[1] = Str(<<"?">>)
                THEN Str(V_jsonCallback)
                ELSE IF Len(v_list) = 1 THEN v_list[1] ELSE ListV(v_list)
        IN read(qs_values_keep_blank(pairs, k))]

\* a str value that is a URL or a path
is_url_value(v) ==
    /\ v.t = "str"
    /\ startswith(v.s, W_http) \/ startswith(v.s, <<"/">>)
    /\ \E i \in 3..Len(v.s) : v.s[i] = "/"

\* the fields of the page object that are request parameters
obj_params(raw_obj_params) ==
    LET kept == {k \in DOMAIN raw_obj_params :
                    /\ ~is_url_value(raw_obj_params[k])
                    /\ ~\E skip \in ConfigFieldTokens : Contains(lower(k), skip)
                    /\ raw_obj_params[k].t # "dict"}
    IN [k \in kept |-> raw_obj_params[k]]

\* the HTTP method inferred for a configuration
inferred_method(layer0_result, url, all_params) ==
    IF \/ layer0_result.is_jsonp
       \/ K_jsonCallBack \in DOMAIN all_params
       \/ K_callback \in DOMAIN all_params
    THEN "GET"
    ELSE IF \E kw \in {W_history, W_search, W_query} : Contains(lower(layer0_result.var_name), kw)
    THEN "POST"
    ELSE IF \E kw \in {W_annlist, W_search} : Contains(lower(url.path), kw)
    THEN "POST"
    ELSE "GET"

GlobalVarConfidence == 95

\* None when the configuration has no URL.  page_netloc is the host of the
\* page the browser shows.
_build_candidate_from_global_var(layer0_result, page_netloc) ==
    IF layer0_result.api_url.form = "empty" THEN None
    ELSE LET given == layer0_result.api_url.url
             netloc == IF layer0_result.api_url.form = "path" THEN page_netloc
                       ELSE given.netloc
             date_params == layer0_result.date_params
             merge(from_url, from_obj) ==
                 [k \in (DOMAIN from_url) \cup (DOMAIN from_obj) \cup (DOMAIN date_params)
                    |-> IF k \in DOMAIN from_url THEN from_url[k]
                        ELSE IF k \in DOMAIN from_obj THEN from_obj[k]
                        ELSE Str(<<>>)]
             flag_obj == DOMAIN date_params = {} /\ layer0_result.extra_info.source = "flag_obj"
             date_param_formats ==
                 IF flag_obj THEN [k \in {K_seDate_name} |-> layer0_result.date_format]
                 ELSE [k \in DOMAIN date_params |-> layer0_result.date_format]
             built(api_url, merged) ==
                 Candidate(api_url, inferred_method(layer0_result, api_url, merged),
                           IF flag_obj THEN dict_set(merged, K_seDate_name, ListV(<<>>))
                           ELSE merged,
                           date_param_formats, GlobalVarConfidence, "global_var")
         IN built(Url(netloc, given.path, <<>>),
                  merge(url_query_params(given.query),
                        obj_params(layer0_result.all_params)))

\* the text of the URL ends with a static extension
StaticExtensions == {
    <<".","c","s","s">>, <<".","p","n","g">>, <<".","j","p","g">>, <<".","g","i","f">>,
    <<".","s","v","g">>, <<".","i","c","o">> }

url_tail(url) == IF url.query = <<>> THEN url.path ELSE url.query[Len(url.query)][2]

has_static_extension(url) == \E ext \in StaticExtensions : endswith(lower(url_tail(url)), ext)

\* the format of the first date parameter, in the order of the query string
first_date_format(pairs, date_params) ==
    LET hits == {i \in 1..Len(pairs) : pairs[i][1] \in DOMAIN date_params}
    IN date_params[pairs[CHOOSE i \in hits : \A j \in hits : i <= j][1]]

W_jsonp == <<"j","s","o","n","p">>

\* the configuration _analyze_intercepted_apis builds for one record, None
\* when the record is skipped.  A record is [url, type, method], url an ApiUrl.
intercepted_config(record) ==
    IF \/ record.url.form \notin {"absolute", "scheme_relative"}
       \/ has_static_extension(record.url.url)
    THEN None
    ELSE LET url == record.url.url
             config_of(flat_params, date_params) ==
                 IF DOMAIN date_params = {} THEN None
                 ELSE Config(<<"i","n","t","e","r","c","e","p","t","e","d","_">>
                                 \o record.type,
                             ApiUrl("absolute", Url(url.netloc, url.path, <<>>)),
                             date_params, flat_params,
                             first_date_format(url.query, date_params),
                             \E tok \in {K_callback, W_jsonp} : url_contains(url, tok),
                             "xhr_fetch_hook")
             analyzed(flat_params) ==
                 config_of(flat_params, _identify_date_params(flat_params))
         IN analyzed(flat_qs(url.query))

RECURSIVE intercepted_configs(_)
intercepted_configs(intercepted) ==
    IF intercepted = <<>> THEN <<>>
    ELSE LET kept(config) == IF config = None THEN <<>> ELSE <<config>>
         IN kept(intercepted_config(Head(intercepted)))
            \o intercepted_configs(Tail(intercepted))

ScanResult(found, error, api_configs) ==
    [found |-> found, error |-> error, api_configs |-> api_configs]

\* None for an empty list of records
_analyze_intercepted_apis(intercepted) ==
    LET found(api_configs) ==
            IF api_configs = <<>>
            THEN ScanResult(FALSE, "no API with date parameters among the hook records",
                            <<>>)
            ELSE ScanResult(TRUE, ErrNone, api_configs)
    IN IF intercepted = <<>> THEN None ELSE found(intercepted_configs(intercepted))

\* what _execute_global_var_scan returns for an outcome of page.evaluate:
\*   [kind |-> "raise"]                     the evaluation raised
\*   [kind |-> "null"]                      it returned nothing
\*   [kind |-> "result", result |-> r]      it returned the scan's result r
_execute_global_var_scan(evaluated) ==
    IF evaluated.kind = "raise" THEN ScanResult(FALSE, "evaluation failed", <<>>)
    ELSE IF evaluated.kind = "null" THEN None
    ELSE evaluated.result

\* the configuration the selection loop of Layer 0 ends with
RECURSIVE select_config(_, _, _)
select_config(api_configs, i, best_config) ==
    IF i > Len(api_configs)
    THEN (IF best_config = None THEN api_configs[1] ELSE best_config)
    ELSE LET n == Cardinality(DOMAIN api_configs[i].date_params)
         IN IF n >= 2 THEN api_configs[i]
            ELSE IF n >= 1 /\ best_config = None
            THEN select_config(api_configs, i + 1, api_configs[i])
            ELSE select_config(api_configs, i + 1, best_config)

Layer0Failure(error) == [success |-> FALSE, error |-> error]

\* hooked is the outcome of browser.get_intercepted_apis():
\*   [kind |-> "absent"], [kind |-> "raise"], [kind |-> "records", records |-> seq]
_try_layer0_global_var_scan(evaluated, hooked) ==
    LET selected(best_config, api_configs) ==
            [success |-> TRUE,
             var_name |-> best_config.var_name,
             api_url |-> best_config.api_url,
             date_params |-> best_config.date_params,
             all_params |-> best_config.all_params,
             date_format |-> best_config.date_format,
             is_jsonp |-> best_config.is_jsonp,
             extra_info |-> best_config.extra_info,
             all_configs |-> api_configs]
        extracted(not_found, scan_result) ==
            IF not_found /\ hooked.kind = "raise"
            THEN Layer0Failure("global variable scan raised")
            ELSE IF scan_result = None THEN Layer0Failure("global variable scan raised")
            ELSE IF ~scan_result.found THEN Layer0Failure(scan_result.error)
            ELSE IF scan_result.api_configs = <<>>
            THEN Layer0Failure("scanned global variables but found no valid API configuration")
            ELSE selected(select_config(scan_result.api_configs, 1, None),
                          scan_result.api_configs)
        hook_found(hook_result) == hook_result # None /\ hook_result.found
        with_hook(scanned, not_found, hook_result) ==
            extracted(not_found,
                      IF not_found /\ hook_found(hook_result) THEN hook_result
                      ELSE scanned)
        with_scan(scanned) ==
            with_hook(scanned, scanned = None \/ ~scanned.found,
                      IF hooked.kind = "records"
                      THEN _analyze_intercepted_apis(hooked.records) ELSE None)
    IN with_scan(_execute_global_var_scan(evaluated))

-----------------------------------------------------------------------------
(* Layers 1 to 3.  Each layer is given the outcomes of the collaborators   *)
(* it calls and returns [result, candidates]: its result dict and the      *)
(* value it leaves in self.candidates.                                     *)

MaxVerified == 3

Verify(candidate, reply) ==
    verify_candidate(candidate, args.start_date, args.end_date, today, reply)

LayerFailure(error) == [success |-> FALSE, error |-> error, data_count |-> 0]

\* verification_result.get('parsed_data')
parsed_data_of(verification_result) ==
    IF DOMAIN verification_result = {} THEN None ELSE verification_result.parsed_data

\* the number of candidates a layer verifies for these requests
verified_count(requests) ==
    IF requests = None THEN 0 ELSE Min(Len(analyze_requests(requests)), MaxVerified)

\* a faulty variant of better_verified: any successful verification is kept
better_verified_any(verification, best_data_count) == verification.success

\* result['success'] and result['data_count'] > best_data_count
better_verified(verification, best_data_count) ==
    verification.success /\ verification.data_count > best_data_count

\* a faulty variant of passes_sanity_check: no candidate passes
passes_sanity_check_never(candidate) == FALSE

passes_sanity_check(candidate) == _looks_like_real_date_filter(candidate)

\* the verification loop of Layer 1 from candidate i on; acc is
\* [candidates, best_candidate, best_data_count]
RECURSIVE layer1_loop(_, _, _)
layer1_loop(acc, replies, i) ==
    IF i > Min(Len(acc.candidates), MaxVerified) THEN acc
    ELSE LET kept(verification, candidate, verified) ==
                 IF /\ better_verified(verification, acc.best_data_count)
                    /\ passes_sanity_check(candidate)
                 THEN [candidates |-> verified, best_candidate |-> candidate,
                       best_data_count |-> verification.data_count]
                 ELSE [acc EXCEPT !.candidates = verified]
             marked(verification, candidate) ==
                 kept(verification, candidate, [acc.candidates EXCEPT ![i] = candidate])
             verified_as(verification) ==
                 marked(verification,
                        [acc.candidates[i] EXCEPT !.is_verified = TRUE,
                                                  !.verification_result = verification])
         IN layer1_loop(verified_as(Verify(acc.candidates[i], replies[i])),
                        replies, i + 1)

_try_layer1_api_direct(requests, replies, held) ==
    LET verified(loop) ==
            [result |->
                IF loop.best_candidate # None
                THEN [success |-> TRUE,
                      best_candidate |-> loop.best_candidate,
                      data_count |-> loop.best_data_count,
                      replayed_data |->
                          parsed_data_of(loop.best_candidate.verification_result),
                      error |-> ErrNone]
                ELSE LayerFailure("all candidates failed verification or the sanity check"),
             candidates |-> loop.candidates]
        analyzed(cands) ==
            IF cands = <<>>
            THEN [result |-> LayerFailure("no date API among the network requests"),
                  candidates |-> <<>>]
            ELSE verified(layer1_loop([candidates |-> cands, best_candidate |-> None,
                                       best_data_count |-> 0], replies, 1))
    IN IF requests = None
       THEN [result |-> LayerFailure("layer 1 raised"), candidates |-> held]
       ELSE analyzed(analyze_requests(requests))

\* the verification loop of Layer 2 from candidate i on; acc is
\* [best_candidate, best_data_count]
RECURSIVE layer2_loop(_, _, _, _)
layer2_loop(cands, acc, replies, i) ==
    IF i > Min(Len(cands), MaxVerified) THEN acc
    ELSE LET kept(verification) ==
                 IF better_verified(verification, acc.best_data_count)
                 THEN [best_candidate |-> cands[i],
                       best_data_count |-> verification.data_count]
                 ELSE acc
         IN layer2_loop(cands, kept(Verify(cands[i], replies[i])), replies, i + 1)

PickerFailure(error, picker_type) ==
    [success |-> FALSE, error |-> error, data_count |-> 0, picker_type |-> picker_type]

\* picker is the DatePickerInfo of _detect_date_picker, operated the value of
\* _operate_date_picker, waited "ok" or "raise" for the wait for the network,
\* captured the outcome of browser.get_captured_requests():
\*   [kind |-> "raise"] or [kind |-> "requests", requests |-> r]
_try_layer2_dom_detect(picker, operated, waited, captured, replies, held) ==
    IF ~browser.page
    THEN [result |-> LayerFailure("browser not ready"), candidates |-> held]
    ELSE IF ~picker.found
    THEN [result |-> LayerFailure("no date picker detected"), candidates |-> held]
    ELSE IF ~operated
    THEN [result |-> PickerFailure("operating the date picker failed", picker.picker_type),
          candidates |-> held]
    ELSE IF waited = "raise" \/ captured.kind = "raise"
    THEN [result |-> LayerFailure("layer 2 raised"), candidates |-> held]
    ELSE LET verified(cands, loop) ==
                 [result |->
                     IF cands = <<>>
                     THEN PickerFailure("no new date API request after operating the picker",
                                        picker.picker_type)
                     ELSE IF loop.best_candidate # None
                     THEN [success |-> TRUE,
                           best_candidate |-> loop.best_candidate,
                           data_count |-> loop.best_data_count,
                           replayed_data |->
                               parsed_data_of(loop.best_candidate.verification_result),
                           picker_type |-> picker.picker_type,
                           error |-> ErrNone]
                     ELSE PickerFailure("the captured API failed verification",
                                        picker.picker_type),
                  candidates |-> cands]
             analyzed(cands) ==
                 verified(cands,
                          layer2_loop(cands, [best_candidate |-> None, best_data_count |-> 0],
                                      replies, 1))
         IN analyzed(analyze_requests(captured.requests))

\* the first candidate, from i on, whose verification succeeds with data, as
\* [index, verification]; index 0 when there is none
RECURSIVE first_verified(_, _, _)
first_verified(cands, replies, i) ==
    IF i > Min(Len(cands), MaxVerified) THEN [index |-> 0]
    ELSE LET checked(verification) ==
                 IF better_verified(verification, 0)
                 THEN [index |-> i, verification |-> verification]
                 ELSE first_verified(cands, replies, i + 1)
         IN checked(Verify(cands[i], replies[i]))

VisionFailure(error, llm_instruction) ==
    [success |-> FALSE, error |-> error, data_count |-> 0,
     llm_instruction |-> llm_instruction]

\* shot is "raise", "empty" or "ok" for browser.take_screenshot_base64();
\* vision is what _ask_llm_for_date_picker returns: [kind |-> "malformed"]
\* for a value that is not a dict, else [kind |-> "answer", found, instruction];
\* operated is the value of _execute_llm_instruction
_try_layer3_llm_vision(shot, vision, operated, waited, captured, replies, held) ==
    IF shot = "raise"
    THEN [result |-> LayerFailure("layer 3 raised"), candidates |-> held]
    ELSE IF shot = "empty"
    THEN [result |-> LayerFailure("screenshot failed"), candidates |-> held]
    ELSE IF vision.kind = "malformed"
    THEN [result |-> LayerFailure("layer 3 raised"), candidates |-> held]
    ELSE IF ~vision.found
    THEN [result |-> VisionFailure("the LLM did not recognize a date picker",
                                   vision.instruction),
          candidates |-> held]
    ELSE IF ~operated
    THEN [result |-> VisionFailure("operating as the LLM instructed failed",
                                   vision.instruction),
          candidates |-> held]
    ELSE IF waited = "raise" \/ captured.kind = "raise"
    THEN [result |-> LayerFailure("layer 3 raised"), candidates |-> held]
    ELSE LET verified(cands, hit) ==
                 [result |->
                     IF cands = <<>>
                     THEN VisionFailure("no date API captured after operating as instructed",
                                        vision.instruction)
                     ELSE IF hit.index > 0
                     THEN [success |-> TRUE,
                           best_candidate |-> cands[hit.index],
                           data_count |-> hit.verification.data_count,
                           replayed_data |-> hit.verification.parsed_data,
                           llm_instruction |-> vision.instruction,
                           error |-> ErrNone]
                     ELSE VisionFailure("the captured API failed verification",
                                        vision.instruction),
                  candidates |-> cands]
             analyzed(cands) == verified(cands, first_verified(cands, replies, 1))
         IN analyzed(analyze_requests(captured.requests))

-----------------------------------------------------------------------------
(* The orchestrator: extract_with_three_layers *)

DateAPIExtractionResult(success, layer, best_candidate, error, replayed_data, data_count) ==
    [success |-> success, layer |-> layer, candidates |-> candidates',
     best_candidate |-> best_candidate, error |-> error,
     replayed_data |-> replayed_data, data_count |-> data_count,
     layer0_result |-> _layer0_result', layer1_result |-> _layer1_result',
     layer2_result |-> _layer2_result', layer3_result |-> _layer3_result',
     recommendations |-> <<>>]

\* a faulty variant of LayerSuccess: data_count is left at its default
LayerSuccess_no_count(layer, layer_result) ==
    [DateAPIExtractionResult(TRUE, layer, layer_result.best_candidate, ErrNone,
                             layer_result.replayed_data, 0)
        EXCEPT !.recommendations = <<"notes of the winning layer">>]

\* the result a successful layer makes the orchestrator return
LayerSuccess(layer, layer_result) ==
    [DateAPIExtractionResult(TRUE, layer, layer_result.best_candidate, ErrNone,
                             layer_result.replayed_data, layer_result.data_count)
        EXCEPT !.recommendations = <<"notes of the winning layer">>]

\* a faulty variant of layer_succeeded: the orchestrator never stops at a layer
layer_succeeded_never(layer_result) == FALSE

\* if layerN_result['success']
layer_succeeded(layer_result) == layer_result.success

\* (layer_result or {}).get('error', '')
error_of(layer_result) ==
    IF layer_result = None THEN ""
    ELSE IF "error" \in DOMAIN layer_result THEN layer_result.error
    ELSE ""

\* "..." + error raises TypeError when error is None
recommendations_raise ==
    \E r \in {_layer0_result, _layer1_result, _layer2_result, _layer3_result} :
        error_of(r) = ErrNone

\* the recommendations of the all-failed result: one line per layer, made of
\* a fixed prefix and the error of the layer's record, and a closing advice
failure_recommendations ==
    <<error_of(_layer0_result), error_of(_layer1_result), error_of(_layer2_result),
      error_of(_layer3_result), "advice">>

-----------------------------------------------------------------------------
(* Names, values and URLs the harnesses draw their inputs from *)

K_startDate == W_start \o <<"D","a","t","e">>
K_endDate == W_end \o <<"D","a","t","e">>
K_seDate == W_se \o <<"D","a","t","e">>
K_pageNo == W_page \o <<"N","o">>
K__TS == <<"_","T","S">>

V_2024_01_01 == <<"2","0","2","4","-","0","1","-","0","1">>
V_2024_01_31 == <<"2","0","2","4","-","0","1","-","3","1">>
V_epoch_ms == <<"1","7","0","0","0","0","0","0","0","0","0","0","0">>
V_abc == <<"a","b","c">>
V_1 == <<"1">>

Host_site == <<"s","i","t","e">>
Path_x == <<"/","x">>

\* a request dict with only url and method set
Request(url, method) ==
    [url |-> url, method |-> method, postData |-> None, post_data |-> None,
     resourceType |-> NoType, initiator |-> None]

-----------------------------------------------------------------------------
(* Each harness leaves the variables of the others at their idle values *)

IdIdle == idPc = "idle" /\ idParams = EmptyDict /\ idResult = EmptyDict /\ idCandidates = <<>>
NoRequests == [all_requests |-> <<>>, api_requests |-> <<>>]
AnIdle == anPc = "idle" /\ anRequests = NoRequests /\ anCandidates = <<>>
PrIdle ==
    prPc = "idle" /\ prInput = None /\ prRaw = None /\ prNamed = None /\ prPlaceholder = None
RpIdle == rpPc = "idle" /\ rpCandidate = None /\ rpRange = None /\ rpReplay = None
ExIdle ==
    /\ browser = None /\ llm = FALSE /\ args = None /\ today = <<>>
    /\ pc = "idle" /\ started = <<>> /\ candidates = <<>>
    /\ _layer0_result = None /\ _layer1_result = None
    /\ _layer2_result = None /\ _layer3_result = None
    /\ result = None
FmIdle == fmPc = "idle" /\ fmDate = <<>> /\ fmFormat = "" /\ fmText = <<>>
VlIdle == vlPc = "idle" /\ vlData = None /\ vlReply = None /\ vlValidation = None /\ vlVerification = None
CkIdle == ckPc = "idle" /\ ckCandidate = None /\ ckRange = None /\ ckToday = <<>> /\ ckRequest = None
CcIdle == ccPc = "idle" /\ ccSel = 0 /\ ccEls = 0 /\ ccEl = 0 /\ ccCancel = "none" /\ ccAfter = {}
CwIdle == cwPc = "idle" /\ cwAll = <<>> /\ cwApi = <<>> /\ cwWindow = 0 /\ cwAnalysed = <<>>
TmIdle == tmPc = "idle" /\ tmBrowser = FALSE /\ tmLlm = FALSE /\ tmLeft = 0 /\ tmBest = FALSE /\ tmClicks = 0 /\ tmReplays = <<>>
LpIdle == lpPc = "idle" /\ lpLayer = 0 /\ lpCandidates = <<>> /\ lpIndex = 0 /\ lpBest = [best_candidate |-> None, best_data_count |-> 0] /\ lpTried = <<>>
ScIdle == scPc = "idle" /\ scConfigs = <<>> /\ scServer = <<>> /\ scLayer0 = None /\ scTried = <<>> /\ scResult = None
PkIdle == pkPc = "idle" /\ pkPicker = None /\ pkTried = <<>> /\ pkError = "" /\ pkNew = 0
GsIdle == gsPc = "idle" /\ gsUrl = <<>> /\ gsWindow = <<>> /\ gsResult = None
AuxIdle == FmIdle /\ VlIdle /\ CkIdle /\ CcIdle /\ CwIdle /\ TmIdle /\ LpIdle /\ ScIdle /\ PkIdle /\ GsIdle
CfIdle == cfPc = "idle" /\ cfA = None /\ cfB = None /\ cfCandA = None /\ cfCandB = None
OldIdle == IdIdle /\ CfIdle /\ AnIdle /\ PrIdle /\ RpIdle /\ ExIdle
FmOthersIdle == OldIdle /\ VlIdle /\ CkIdle /\ CcIdle /\ CwIdle /\ TmIdle /\ LpIdle /\ ScIdle /\ PkIdle /\ GsIdle
VlOthersIdle == OldIdle /\ FmIdle /\ CkIdle /\ CcIdle /\ CwIdle /\ TmIdle /\ LpIdle /\ ScIdle /\ PkIdle /\ GsIdle
CkOthersIdle == OldIdle /\ FmIdle /\ VlIdle /\ CcIdle /\ CwIdle /\ TmIdle /\ LpIdle /\ ScIdle /\ PkIdle /\ GsIdle
CcOthersIdle == OldIdle /\ FmIdle /\ VlIdle /\ CkIdle /\ CwIdle /\ TmIdle /\ LpIdle /\ ScIdle /\ PkIdle /\ GsIdle
CwOthersIdle == OldIdle /\ FmIdle /\ VlIdle /\ CkIdle /\ CcIdle /\ TmIdle /\ LpIdle /\ ScIdle /\ PkIdle /\ GsIdle
TmOthersIdle == OldIdle /\ FmIdle /\ VlIdle /\ CkIdle /\ CcIdle /\ CwIdle /\ LpIdle /\ ScIdle /\ PkIdle /\ GsIdle
LpOthersIdle == OldIdle /\ FmIdle /\ VlIdle /\ CkIdle /\ CcIdle /\ CwIdle /\ TmIdle /\ ScIdle /\ PkIdle /\ GsIdle
ScOthersIdle == OldIdle /\ FmIdle /\ VlIdle /\ CkIdle /\ CcIdle /\ CwIdle /\ TmIdle /\ LpIdle /\ PkIdle /\ GsIdle
PkOthersIdle == OldIdle /\ FmIdle /\ VlIdle /\ CkIdle /\ CcIdle /\ CwIdle /\ TmIdle /\ LpIdle /\ ScIdle /\ GsIdle
GsOthersIdle == OldIdle /\ FmIdle /\ VlIdle /\ CkIdle /\ CcIdle /\ CwIdle /\ TmIdle /\ LpIdle /\ ScIdle /\ PkIdle

-----------------------------------------------------------------------------
(* Harness of _identify_date_params: a parameter map is drawn, identified  *)
(* directly, and analysed as the JSON body of a captured POST request.     *)

MaxParams == 2

IdKeys == _noise_param_names \cup {K__TS, K_startDate, K_seDate}

IdValues == {
    Str(V_2024_01_01), Str(V_epoch_ms), IntV(V_epoch_ms), Str(V_abc),
    ListV(<<Str(V_2024_01_01), Str(V_2024_01_31)>>),
    ListV(<<Str(V_2024_01_01), Str(V_abc)>>) }

IdParamMaps ==
    UNION {[S -> IdValues] : S \in {T \in SUBSET IdKeys : Cardinality(T) <= MaxParams}}

IdInit ==
    /\ CfIdle /\ AnIdle /\ PrIdle /\ RpIdle /\ ExIdle /\ AuxIdle
    /\ idPc = "input"
    /\ idParams \in IdParamMaps
    /\ idResult = EmptyDict
    /\ idCandidates = <<>>

IdIdentify ==
    /\ idPc = "input"
    /\ idResult' = _identify_date_params(idParams)
    /\ idPc' = "identified"
    /\ UNCHANGED <<idParams, idCandidates, cfVars, anVars, prVars, rpVars, exVars, auxVars>>

IdAnalyze ==
    /\ idPc = "identified"
    /\ idCandidates' = analyze_requests(
           [all_requests |-> <<>>,
            api_requests |-> <<[Request(Url(Host_site, Path_x, <<>>), "POST")
                                 EXCEPT !.postData = [t |-> "json", obj |-> idParams]]>>])
    /\ idPc' = "analyzed"
    /\ UNCHANGED <<idParams, idResult, cfVars, anVars, prVars, rpVars, exVars, auxVars>>

IdNext == IdIdentify \/ IdAnalyze

SpecIdentify == IdInit /\ [][IdNext]_vars

\* C6: a parameter whose name is, case-insensitively, one of the noise names is
\* never among the date parameters _identify_date_params returns, whatever its
\* value, and so is never a date parameter of a candidate of analyze_requests.
C6_NoiseNeverDateParam ==
    /\ idPc # "input" =>
          \A k \in DOMAIN idParams :
              lower(k) \in _noise_param_names => k \notin DOMAIN idResult
    /\ \A i \in 1..Len(idCandidates) :
          \A k \in DOMAIN idCandidates[i].date_params :
              lower(k) \notin _noise_param_names

\* a noise-named parameter with a 13-digit value next to a recognized one: the
\* recognized one is returned and becomes the candidate's only date parameter
C6_Witness ==
    /\ idPc = "analyzed"
    /\ <<"_">> \in DOMAIN idParams
    /\ idParams[<<"_">>] = Str(V_epoch_ms)
    /\ DOMAIN idResult = {K_startDate}
    /\ Len(idCandidates) = 1
    /\ DOMAIN idCandidates[1].date_params = {K_startDate}


-----------------------------------------------------------------------------
(* Harness of _calculate_confidence: two captured requests are drawn and   *)
(* each is analysed by _analyze_single_request, which scores it.           *)

Path_bulletin == <<"/">> \o W_bulletin
Path_api_x == <<"/">> \o W_api \o Path_x
Path_disclosure_list == <<"/">> \o W_disclosure \o <<"/">> \o W_list
Path_announcement == <<"/">> \o W_announcement

CfPaths == {Path_x, Path_bulletin, Path_api_x, Path_disclosure_list, Path_announcement}

CfDateQueries == {
    <<<<K_startDate, V_2024_01_01>>>>,
    <<<<K_startDate, V_2024_01_01>>, <<K_endDate, V_2024_01_31>>>>,
    <<<<K_startDate, V_2024_01_01>>, <<K_endDate, V_2024_01_31>>,
      <<W_date, V_2024_01_01>>>> }

CfExtraQueries == {
    <<>>,
    <<<<W_page, V_1>>>>,
    <<<<K_pageNo, V_1>>, <<<<"P","A","G","E","S","I","Z","E">>, V_1>>>>,
    <<<<W_page, V_1>>, <<W_pageSize, V_1>>, <<W_limit, V_1>>, <<W_offset, V_1>>,
      <<W_type, V_1>>, <<W_category, V_1>>, <<<<"k","w">>, V_abc>>>> }

CfRequests ==
    {Request(Url(Host_site, path, dq \o eq), method) :
        path \in CfPaths, dq \in CfDateQueries, eq \in CfExtraQueries,
        method \in {"GET", "POST"}}

CfInit ==
    /\ IdIdle /\ AnIdle /\ PrIdle /\ RpIdle /\ ExIdle /\ AuxIdle
    /\ cfPc = "input"
    /\ cfA \in CfRequests
    /\ cfB \in CfRequests
    /\ cfCandA = None
    /\ cfCandB = None

CfScore ==
    /\ cfPc = "input"
    /\ cfCandA' = _analyze_single_request(cfA)
    /\ cfCandB' = _analyze_single_request(cfB)
    /\ cfPc' = "scored"
    /\ UNCHANGED <<cfA, cfB, idVars, anVars, prVars, rpVars, exVars, auxVars>>

CfNext == CfScore

SpecConfidence == CfInit /\ [][CfNext]_vars

no_path_hint(path) == ~matches_api_path(path) /\ ~has_bulletin_token(lower(path))

\* C8: a POST candidate with exactly two recognized date parameters and a
\* bulletin-like path scores strictly higher than a GET candidate with exactly
\* one recognized date parameter and a path matching no path hint, whatever
\* other parameters either carries.
C8_ScoringMonotonicity ==
    ( /\ cfPc = "scored"
      /\ cfCandA.method = "POST"
      /\ Cardinality(DOMAIN cfCandA.date_params) = 2
      /\ has_bulletin_token(lower(cfCandA.url.path))
      /\ cfCandB.method = "GET"
      /\ Cardinality(DOMAIN cfCandB.date_params) = 1
      /\ no_path_hint(cfCandB.url.path) )
    => cfCandA.confidence > cfCandB.confidence

\* the closest pair: the POST candidate carries no other parameter, the GET
\* candidate all six common ones
C8_Witness ==
    /\ cfPc = "scored"
    /\ cfCandA.method = "POST"
    /\ DOMAIN cfCandA.params = {K_startDate, K_endDate}
    /\ cfCandA.url.path = Path_bulletin
    /\ cfCandA.confidence = 70
    /\ cfCandB.method = "GET"
    /\ DOMAIN cfCandB.date_params = {K_startDate}
    /\ cfCandB.url.path = Path_x
    /\ common_api_params \subseteq DOMAIN cfCandB.params
    /\ cfCandB.confidence = 50


-----------------------------------------------------------------------------
(* Harness of analyze_requests: the list of all captured requests is drawn *)
(* from a pool, and the API subset is a sub-list of it.                    *)

MaxReqs == 2

Path_y == <<"/","y">>
Path_z == <<"/","z">>
Path_api_bulletin == <<"/">> \o W_api \o Path_bulletin
Path_img == <<"/","i","m","g">>

Frame(functionName, file) == [functionName |-> functionName, file |-> file]
Initiator(type, frames) == [type |-> type, frames |-> frames]

File_app_js == <<"a","p","p",".","j","s">>
ClickInitiator == Initiator("script", <<Frame(W_on \o <<"C","l","i","c","k">>, File_app_js)>>)
TimerInitiator == Initiator("other", <<Frame(W_set \o <<"I","n","t","e","r","v","a","l">>, File_app_js)>>)

DateRangeQuery == <<<<K_startDate, V_2024_01_01>>, <<K_endDate, V_2024_01_31>>>>
DateRangeBody == [t |-> "json",
                  obj |-> [k \in {K_startDate, K_endDate} |->
                              IF k = K_startDate THEN Str(V_2024_01_01)
                              ELSE Str(V_2024_01_31)]]

\* the request of the end-to-end example: GET x?startDate=..&endDate=..&pageNo=1
R_get == Request(Url(Host_site, Path_x, DateRangeQuery \o <<<<K_pageNo, V_1>>>>), "GET")

\* a POST to a bulletin API, issued from a click handler
R_post_bulletin ==
    [Request(Url(Host_site, Path_api_bulletin,
                 DateRangeQuery \o <<<<W_pageSize, V_1>>>>), "POST")
     EXCEPT !.resourceType = "XHR", !.initiator = ClickInitiator]

\* an image whose URL carries a date
R_image ==
    [Request(Url(Host_site, Path_img, <<<<W_date, V_2024_01_01>>>>), "GET")
     EXCEPT !.resourceType = "Image"]

\* a request without any date-shaped parameter
R_nodate == Request(Url(Host_site, Path_api_x, <<<<W_page, V_1>>>>), "GET")

\* a POST whose dates are in its JSON body, under the key postData
R_body ==
    [Request(Url(Host_site, Path_y, <<>>), "POST")
     EXCEPT !.postData = DateRangeBody, !.resourceType = "Fetch"]

\* the same as the browser controller's listener records it: under post_data
R_body_recorded ==
    [Request(Url(Host_site, Path_z, <<>>), "POST") EXCEPT !.post_data = DateRangeBody]

\* a polling request with a cache-busting parameter
R_timer ==
    [Request(Url(Host_site, Path_x, <<<<K_startDate, V_2024_01_01>>, <<<<"_">>, V_epoch_ms>>>>),
             "GET")
     EXCEPT !.resourceType = "xhr", !.initiator = TimerInitiator]

AnPool == {R_get, R_post_bulletin, R_image, R_nodate, R_body, R_body_recorded, R_timer}

SeqsUpTo(S, n) == UNION {[1..k -> S] : k \in 0..n}

\* the sub-list of reqs at the positions in keep
RECURSIVE SubList(_, _, _)
SubList(reqs, keep, i) ==
    IF i > Len(reqs) THEN <<>>
    ELSE (IF i \in keep THEN <<reqs[i]>> ELSE <<>>) \o SubList(reqs, keep, i + 1)

AnInit ==
    /\ IdIdle /\ CfIdle /\ PrIdle /\ RpIdle /\ ExIdle /\ AuxIdle
    /\ anPc = "input"
    /\ \E reqs \in SeqsUpTo(AnPool, MaxReqs) :
          \E keep \in SUBSET (1..Len(reqs)) :
              anRequests = [all_requests |-> reqs, api_requests |-> SubList(reqs, keep, 1)]
    /\ anCandidates = <<>>

AnAnalyze ==
    /\ anPc = "input"
    /\ anCandidates' = analyze_requests(anRequests)
    /\ anPc' = "analyzed"
    /\ UNCHANGED <<anRequests, idVars, cfVars, prVars, rpVars, exVars, auxVars>>

AnNext == AnAnalyze

SpecAnalyze == AnInit /\ [][AnNext]_vars

\* C7: every candidate's confidence is at most 1.0, also after analyze_requests
\* has applied the API-subset bonus and the initiator adjustment.
C7_ConfidenceAtMostOne ==
    \A i \in 1..Len(anCandidates) : anCandidates[i].confidence <= 100


-----------------------------------------------------------------------------
(* Harness of _parse_response: a body, a callback name, a lead and a tail  *)
(* are drawn; the body is parsed raw, wrapped in the named callback and    *)
(* wrapped in the placeholder form.                                        *)

PrBodies == {
    J_empty_object, J_a_1, J_a_paren, <<" ">> \o J_a_1 \o <<" ">>,
    <<"{","\"","a","\"",":","1">>, V_abc, <<>>, <<"{","}",")">> }

PrNames == { <<"c","b">>, <<"_","c","b","1">>, <<"j","s","o","n","C","a","l","l","b","a","c","k">> }
PrLeads == { <<>>, <<" ">>, CommentPrefix }
PrTails == { <<>>, <<";">>, <<" ",";"," ">> }

PrInit ==
    /\ IdIdle /\ CfIdle /\ AnIdle /\ RpIdle /\ ExIdle /\ AuxIdle
    /\ prPc = "input"
    /\ prInput \in [body : PrBodies, name : PrNames, lead : PrLeads, tail : PrTails]
    /\ prRaw = None
    /\ prNamed = None
    /\ prPlaceholder = None

PrParse ==
    /\ prPc = "input"
    /\ prRaw' = _parse_response(prInput.lead \o prInput.body)
    /\ prNamed' = _parse_response(prInput.lead \o prInput.name \o <<"(">> \o prInput.body
                                  \o <<")">> \o prInput.tail)
    /\ prPlaceholder' = _parse_response(prInput.lead \o <<"?","(">> \o prInput.body \o <<")">>)
    /\ prPc' = "parsed"
    /\ UNCHANGED <<prInput, idVars, cfVars, anVars, rpVars, exVars, auxVars>>

PrNext == PrParse

SpecParse == PrInit /\ [][PrNext]_vars

IsJsonObjectText(text) == json_loads(text) # JsonError /\ json_loads(text).t = "dict"

\* C9: a JSON object text parses to the same object raw, wrapped in a named
\* callback (with or without a semicolon) and wrapped in ?( ); a body that is
\* not valid JSON yields None in all three forms.
C9_JsonpUnwrap ==
    prPc = "parsed" =>
        /\ IsJsonObjectText(prInput.body) =>
              /\ prRaw.t = "dict"
              /\ prNamed = prRaw
              /\ prPlaceholder = prRaw
        /\ json_loads(prInput.body) = JsonError =>
              prRaw = None /\ prNamed = None /\ prPlaceholder = None

\* {"a":1} behind a comment prefix, in cb(...); and in ?(...)
C9_Witness ==
    /\ prPc = "parsed"
    /\ prInput.body = J_a_1
    /\ prInput.lead = CommentPrefix
    /\ prInput.tail = <<";">>
    /\ prRaw = Dict([k \in {K_a} |-> IntV(<<"1">>)])
    /\ prNamed = prRaw
    /\ prPlaceholder = prRaw


-----------------------------------------------------------------------------
(* Harness of build_replay_url: a captured request is analysed into a      *)
(* candidate, which is replayed for a drawn range.                         *)

V_2024_02_01 == <<"2","0","2","4","-","0","2","-","0","1">>
V_2024_02_05 == <<"2","0","2","4","-","0","2","-","0","5">>
V_2024_2_5 == <<"2","0","2","4","-","2","-","5">>
V_2024_02_30 == <<"2","0","2","4","-","0","2","-","3","0">>
V_20240101 == <<"2","0","2","4","0","1","0","1">>
K_dateList == <<"d","a","t","e","L","i","s","t">>

\* original values of an array date parameter: several lengths and contents
RpArrays == {
    <<Str(V_2024_01_01), Str(V_2024_01_01)>>,
    <<Str(V_2024_01_01)>>,
    <<Str(V_2024_01_01), Str(V_2024_01_31), Str(V_2024_02_01)>>,
    <<Str(V_abc), Str(V_20240101)>>,
    <<IntV(V_1), Str(V_2024_01_31)>> }

RpArrayKeys == {K_seDate, K_dateList}
RpStarts == {V_2024_02_01, V_2024_01_31, V_2024_2_5}
RpEnds == {V_2024_02_05, V_2024_02_30, V_abc}
RpHosts == {Host_site, Host_sse}

\* the array in a JSON body of a POST
Rp_post(host, k, array) ==
    [Request(Url(host, Path_x, <<>>), "POST") EXCEPT
        !.postData = [t |-> "json",
                      obj |-> [j \in {k, K_pageNo} |->
                                  IF j = k THEN ListV(array) ELSE IntV(V_1)]]]

\* the array as a repeated key of the query string of a GET
Rp_get(host, k, array) ==
    Request(Url(host, Path_x,
                [i \in 1..Len(array) |-> <<k, str_of(array[i])>>] \o <<<<K_pageNo, V_1>>>>),
            "GET")

\* start and end as two keys of the query string of a GET
Rp_named(host) ==
    Request(Url(host, Path_x, <<<<K_startDate, V_2024_01_01>>, <<K_endDate, V_20240101>>>>),
            "GET")

\* start and end as two keys of the query string of a POST
Rp_post_query(host) ==
    Request(Url(host, Path_x, <<<<K_startDate, V_2024_01_01>>, <<K_endDate, V_20240101>>>>),
            "POST")

\* start and end as two keys of the JSON body of a POST
Rp_post_named(host) ==
    [Request(Url(host, Path_x, <<>>), "POST") EXCEPT !.postData = DateRangeBody]

RpRequests ==
    {Rp_post(h, k, a) : h \in RpHosts, k \in RpArrayKeys, a \in RpArrays}
    \cup {Rp_post_query(h) : h \in RpHosts}
    \cup {Rp_post_named(h) : h \in RpHosts}
    \cup {Rp_get(h, k, a) : h \in RpHosts, k \in RpArrayKeys, a \in RpArrays}
    \cup {Rp_named(h) : h \in RpHosts}

RpInit ==
    /\ IdIdle /\ CfIdle /\ AnIdle /\ PrIdle /\ ExIdle /\ AuxIdle
    /\ rpPc = "input"
    /\ rpCandidate \in {_analyze_single_request(r) : r \in RpRequests} \ {None}
    /\ rpRange \in [start : RpStarts, end : RpEnds]
    /\ rpReplay = None

RpReplay ==
    /\ rpPc = "input"
    /\ rpReplay' = build_replay_url(rpCandidate, rpRange.start, rpRange.end)
    /\ rpPc' = "replayed"
    /\ UNCHANGED <<rpCandidate, rpRange, idVars, cfVars, anVars, prVars, exVars, auxVars>>

RpNext == RpReplay

SpecReplay == RpInit /\ [][RpNext]_vars

\* the values the replayed GET query carries for key k, in order
RECURSIVE replayed_qs(_, _)
replayed_qs(pairs, k) ==
    IF pairs = <<>> THEN <<>>
    ELSE (IF Head(pairs)[1] = k THEN <<Head(pairs)[2]>> ELSE <<>>) \o replayed_qs(Tail(pairs), k)

HadArray(k) ==
    /\ k \in DOMAIN rpCandidate.date_params
    /\ k \in DOMAIN rpCandidate.params
    /\ rpCandidate.params[k].t = "list"

\* C10: a date parameter whose captured value was an array is replayed as the
\* two-element array [format(start), format(end)] of the caller's range,
\* whatever the captured array held: in the body of a POST, and as the two
\* values of the key in the query string of a GET.
C10_ArrayDateSubstitution ==
    rpPc = "replayed" =>
        \A k \in DOMAIN rpCandidate.date_params :
            HadArray(k) =>
                LET f == rpCandidate.date_params[k]
                    s == format_date(rpRange.start, f)
                    e == format_date(rpRange.end, f)
                IN /\ rpCandidate.method = "POST" =>
                        rpReplay.body[k] = ListV(<<Str(s), Str(e)>>)
                   /\ rpCandidate.method = "GET" =>
                        replayed_qs(rpReplay.url.query, k) = <<quote_plus(s), quote_plus(e)>>
                   /\ (f = "YYYY-MM-DD" /\ rpRange.start = V_2024_02_01
                       /\ rpRange.end = V_2024_02_05) =>
                        s = V_2024_02_01 /\ e = V_2024_02_05

\* seDate captured as ["2024-01-01","2024-01-01"] in a POST body, replayed for
\* 2024-02-01..2024-02-05
C10_Witness ==
    /\ rpPc = "replayed"
    /\ rpCandidate.method = "POST"
    /\ rpCandidate.params[K_seDate] = ListV(<<Str(V_2024_01_01), Str(V_2024_01_01)>>)
    /\ rpCandidate.date_params[K_seDate] = "YYYY-MM-DD"
    /\ rpRange = [start |-> V_2024_02_01, end |-> V_2024_02_05]
    /\ rpReplay.body[K_seDate] = ListV(<<Str(V_2024_02_01), Str(V_2024_02_05)>>)


-----------------------------------------------------------------------------
(* One call of extract_with_three_layers on a fresh extractor.  The        *)
(* outcomes of the collaborators are drawn when a layer calls them.        *)

PageHost == Host_site
V_today == <<"2","0","2","4","-","0","3","-","0","1">>

K_range == W_range
Path_query == <<"/">> \o W_query
Path_history_search == <<"/">> \o W_history \o <<"/">> \o W_search

\* the captured GET of a date API, as the browser records it and as CDP types it
R_get_xhr == [R_get EXCEPT !.resourceType = "XHR"]
R_get_other == [R_get EXCEPT !.resourceType = "Other"]

\* a POST whose body holds a date array under a key that is no date name
R_range ==
    [Request(Url(Host_site, Path_y, <<>>), "POST")
     EXCEPT !.postData = [t |-> "json",
                          obj |-> [k \in {K_range} |->
                                      ListV(<<Str(V_2024_01_01), Str(V_2024_01_31)>>)]]]

Requests(all_requests, api_requests) ==
    [all_requests |-> all_requests, api_requests |-> api_requests]

ExNetworks == {
    None,
    Requests(<<>>, <<>>),
    Requests(<<R_nodate>>, <<R_nodate>>),
    Requests(<<R_get>>, <<>>),
    Requests(<<R_get_xhr>>, <<R_get_xhr>>),
    Requests(<<R_get_other>>, <<>>),
    Requests(<<R_range, R_timer>>, <<>>),
    Requests(<<R_get, R_body, R_post_bulletin, R_timer>>, <<>>) }

ExCaptured == {
    [kind |-> "raise"],
    [kind |-> "requests", requests |-> Requests(<<>>, <<>>)],
    [kind |-> "requests", requests |-> Requests(<<R_get_xhr, R_image>>, <<R_get_xhr>>)],
    [kind |-> "requests", requests |-> Requests(<<R_range>>, <<>>)] }

Replies ==
    {[kind |-> "exception"], [kind |-> "status", code |-> 500]}
    \cup {[kind |-> "text", text |-> J_data(n)] : n \in 0..MaxItems}

V_config == <<"c","o","n","f","i","g">>
V_searchConfig == W_search \o <<"C","o","n","f","i","g">>

\* a page object with a query URL and both dates
Cfg_dates ==
    Config(V_searchConfig, ApiUrl("path", Url(<<>>, Path_query, <<<<K_pageNo, V_1>>>>)),
           [k \in {K_startDate, K_endDate} |-> Str(<<>>)],
           [k \in {K_startDate, K_endDate} |-> Str(<<>>)],
           "YYYY-MM-DD", FALSE, "generic_scan")

\* a page object with an API URL and no date field
Cfg_nodates ==
    Config(V_config, ApiUrl("absolute", Url(Host_site, Path_api_x, <<>>)),
           EmptyDict, [k \in {K_pageNo} |-> IntV(V_1)],
           "YYYY-MM-DD", FALSE, "generic_scan")

Evaluations == {
    [kind |-> "raise"],
    [kind |-> "null"],
    [kind |-> "result", result |-> ScanResult(FALSE, ErrNone, <<>>)],
    [kind |-> "result", result |-> ScanResult(TRUE, ErrNone, <<Cfg_dates>>)],
    [kind |-> "result", result |-> ScanResult(TRUE, ErrNone, <<Cfg_nodates>>)],
    [kind |-> "result", result |-> ScanResult(TRUE, ErrNone, <<Cfg_nodates, Cfg_dates>>)] }

V_xhr == <<"x","h","r">>

HookRecord(url) == [url |-> url, type |-> V_xhr, method |-> "GET"]

Hooks == {
    [kind |-> "absent"],
    [kind |-> "raise"],
    [kind |-> "records",
     records |-> <<HookRecord(ApiUrl("path", Url(<<>>, Path_x, DateRangeQuery))),
                   HookRecord(ApiUrl("absolute", Url(Host_site, Path_x, <<>>)))>>],
    [kind |-> "records",
     records |-> <<HookRecord(ApiUrl("absolute", Url(Host_site, Path_x, DateRangeQuery)))>>] }

Pickers == {
    [found |-> FALSE, picker_type |-> ""],
    [found |-> TRUE, picker_type |-> "laydate"] }

Visions == {
    [kind |-> "malformed"],
    [kind |-> "answer", found |-> FALSE, instruction |-> ""],
    [kind |-> "answer", found |-> TRUE, instruction |-> "click the date input"] }

NoCapture == [kind |-> "requests", requests |-> Requests(<<>>, <<>>)]
NoReply == [kind |-> "exception"]
NoHook == [kind |-> "absent"]
NoPicker == [found |-> FALSE, picker_type |-> ""]
NoVision == [kind |-> "answer", found |-> FALSE, instruction |-> ""]

\* the number of candidates verified for a capture
captured_count(captured) ==
    IF captured.kind = "raise" THEN 0 ELSE verified_count(captured.requests)

\* The outcomes of the collaborators of a layer, as far as the layer reads
\* them: a collaborator the layer does not get to call has one outcome.

\* the hook is read when the scan found nothing, the reply when a
\* configuration was selected
Layer0Outcomes ==
    LET calls_hook(e) == e.kind # "result" \/ ~e.result.found
        verifies(e, h) == layer_succeeded(_try_layer0_global_var_scan(e, h))
    IN { o \in [evaluated : Evaluations, hooked : Hooks, reply : Replies] :
            /\ ~calls_hook(o.evaluated) => o.hooked = NoHook
            /\ ~verifies(o.evaluated, o.hooked) => o.reply = NoReply }

Layer2Outcomes ==
    { o \in [picker : Pickers, operated : BOOLEAN, waited : {"ok", "raise"},
             captured : ExCaptured] :
         /\ ~o.picker.found => ~o.operated
         /\ ~o.operated => o.waited = "ok"
         /\ (~o.operated \/ o.waited = "raise") => o.captured = NoCapture }

Layer3Outcomes ==
    { o \in [shot : {"raise", "empty", "ok"}, vision : Visions, operated : BOOLEAN,
             waited : {"ok", "raise"}, captured : ExCaptured] :
         /\ o.shot # "ok" => o.vision = NoVision
         /\ (o.vision.kind = "malformed" \/ ~o.vision.found) => ~o.operated
         /\ ~o.operated => o.waited = "ok"
         /\ (~o.operated \/ o.waited = "raise") => o.captured = NoCapture }

Init ==
    /\ IdIdle /\ CfIdle /\ AnIdle /\ PrIdle /\ RpIdle /\ AuxIdle
    /\ browser \in {None, [page |-> FALSE], [page |-> TRUE]}
    /\ llm \in BOOLEAN
    /\ args \in [network_requests : ExNetworks, start_date : {V_2024_02_01},
                 end_date : {V_2024_02_05}]
    /\ today = V_today
    /\ pc = "layer0"
    /\ started = <<>>
    /\ candidates = <<>>
    /\ _layer0_result = None
    /\ _layer1_result = None
    /\ _layer2_result = None
    /\ _layer3_result = None
    /\ result = None

\* self.browser and self.browser.page
has_page == IF browser = None THEN FALSE ELSE browser.page

Others == <<idVars, cfVars, anVars, prVars, rpVars, callVars, auxVars>>

\* no browser page: Layer 0 is skipped
SkipLayer0 ==
    /\ pc = "layer0"
    /\ ~has_page
    /\ pc' = "layer1"
    /\ UNCHANGED <<Others, started, candidates, layerVars, result>>

\* Layer 0: scan, build the candidate, verify it
Layer0 ==
    /\ pc = "layer0"
    /\ has_page
    /\ \E outcome \in Layer0Outcomes :
       \E layer0_result \in {_try_layer0_global_var_scan(outcome.evaluated,
                                                         outcome.hooked)} :
       \E candidate \in {IF layer_succeeded(layer0_result)
                         THEN _build_candidate_from_global_var(layer0_result, PageHost)
                         ELSE None} :
       \E verify_result \in {Verify(candidate, outcome.reply)} :
       \E verified \in {candidate # None /\ verify_result.success} :
          /\ _layer0_result' = layer0_result
          /\ candidates' = IF verified THEN <<candidate>> \o candidates ELSE candidates
          /\ UNCHANGED <<_layer1_result, _layer2_result, _layer3_result>>
          /\ IF verified
             THEN /\ result' = DateAPIExtractionResult(TRUE, 0, candidate, ErrNone,
                                   verify_result.parsed_data, verify_result.data_count)
                  /\ pc' = "returned"
             ELSE /\ result' = result
                  /\ pc' = "layer1"
    /\ started' = Append(started, 0)
    /\ UNCHANGED Others

Layer1 ==
    /\ pc = "layer1"
    /\ \E replies \in [1..verified_count(args.network_requests) -> Replies] :
       \E layer1 \in {_try_layer1_api_direct(args.network_requests, replies, candidates)} :
             /\ _layer1_result' = layer1.result
             /\ candidates' = layer1.candidates
             /\ UNCHANGED <<_layer0_result, _layer2_result, _layer3_result>>
             /\ IF layer_succeeded(layer1.result)
                THEN /\ result' = LayerSuccess(1, layer1.result)
                     /\ pc' = "returned"
                ELSE /\ result' = result
                     /\ pc' = "layer2"
    /\ started' = Append(started, 1)
    /\ UNCHANGED Others

\* no browser: Layer 2 is skipped
SkipLayer2 ==
    /\ pc = "layer2"
    /\ browser = None
    /\ pc' = "layer3"
    /\ UNCHANGED <<Others, started, candidates, layerVars, result>>

Layer2 ==
    /\ pc = "layer2"
    /\ browser # None
    /\ \E outcome \in Layer2Outcomes :
          \E replies \in [1..captured_count(outcome.captured) -> Replies] :
          \E layer2 \in {_try_layer2_dom_detect(outcome.picker, outcome.operated,
                                                outcome.waited, outcome.captured,
                                                replies, candidates)} :
                /\ _layer2_result' = layer2.result
                /\ candidates' = layer2.candidates
                /\ UNCHANGED <<_layer0_result, _layer1_result, _layer3_result>>
                /\ IF layer_succeeded(layer2.result)
                   THEN /\ result' = LayerSuccess(2, layer2.result)
                        /\ pc' = "returned"
                   ELSE /\ result' = result
                        /\ pc' = "layer3"
    /\ started' = Append(started, 2)
    /\ UNCHANGED Others

\* no browser or no LLM: Layer 3 is skipped
SkipLayer3 ==
    /\ pc = "layer3"
    /\ ~(browser # None /\ llm)
    /\ pc' = "failed"
    /\ UNCHANGED <<Others, started, candidates, layerVars, result>>

Layer3 ==
    /\ pc = "layer3"
    /\ browser # None /\ llm
    /\ \E outcome \in Layer3Outcomes :
          \E replies \in [1..captured_count(outcome.captured) -> Replies] :
          \E layer3 \in {_try_layer3_llm_vision(outcome.shot, outcome.vision,
                                                outcome.operated, outcome.waited,
                                                outcome.captured, replies, candidates)} :
                /\ _layer3_result' = layer3.result
                /\ candidates' = layer3.candidates
                /\ UNCHANGED <<_layer0_result, _layer1_result, _layer2_result>>
                /\ IF layer_succeeded(layer3.result)
                   THEN /\ result' = LayerSuccess(3, layer3.result)
                        /\ pc' = "returned"
                   ELSE /\ result' = result
                        /\ pc' = "failed"
    /\ started' = Append(started, 3)
    /\ UNCHANGED Others

\* every layer failed: the result is built, or building its recommendations raises
AllFailed ==
    /\ pc = "failed"
    /\ UNCHANGED <<Others, started, candidates, layerVars>>
    /\ IF recommendations_raise
       THEN pc' = "raised" /\ result' = result
       ELSE /\ pc' = "returned"
            /\ result' = [DateAPIExtractionResult(FALSE, -1, None, "all layers failed",
                                                  None, 0)
                             EXCEPT !.recommendations = failure_recommendations]

Next ==
    \/ SkipLayer0 \/ Layer0 \/ Layer1 \/ SkipLayer2 \/ Layer2 \/ SkipLayer3 \/ Layer3
    \/ AllFailed

Spec == Init /\ [][Next]_vars

LayerRecord(k) ==
    IF k = 0 THEN _layer0_result
    ELSE IF k = 1 THEN _layer1_result
    ELSE IF k = 2 THEN _layer2_result
    ELSE _layer3_result

ReturnedRecord(k) ==
    IF k = 0 THEN result.layer0_result
    ELSE IF k = 1 THEN result.layer1_result
    ELSE IF k = 2 THEN result.layer2_result
    ELSE result.layer3_result

Started(k) == \E i \in 1..Len(started) : started[i] = k
Finished == pc \in {"returned", "raised"}
Returned == pc = "returned" /\ result # None

\* C1: whatever the collaborators do, a call of extract_with_three_layers
\* never raises to its caller.
C1_NeverRaises == pc # "raised"

\* the scan found no configuration, no request had a date parameter, no
\* picker was detected and the vision analysis reported found=false
TotalFailureCase ==
    /\ has_page /\ llm
    /\ _layer0_result # None /\ ~_layer0_result.success
    /\ error_of(_layer1_result) = "no date API among the network requests"
    /\ error_of(_layer2_result) = "no date picker detected"
    /\ error_of(_layer3_result) = "the LLM did not recognize a date picker"

\* C2: in the total-failure case the call returns success=false, layer=-1, no
\* best candidate, and four layer records, each with success=false and an error.
C2_TotalFailure ==
    (Finished /\ TotalFailureCase) =>
        /\ Returned
        /\ ~result.success
        /\ result.layer = -1
        /\ result.best_candidate = None
        /\ \A k \in 0..3 :
              /\ ReturnedRecord(k) # None
              /\ ~ReturnedRecord(k).success
              /\ error_of(ReturnedRecord(k)) \notin {ErrNone, ""}

LayerSucceeded(k) ==
    IF k = 0 THEN Returned /\ result.layer = 0
    ELSE LayerRecord(k) # None /\ LayerRecord(k).success

\* C3: the layers are started in the order 0, 1, 2, 3, each at most once; a
\* layer is started only after the lower layers that were started have failed;
\* a layer that was not started has no record; once a layer succeeds no later
\* layer is started and the call returns with the later records absent.
C3_SequentialChain ==
    /\ \A i, j \in 1..Len(started) : i < j => started[i] < started[j]
    /\ \A i \in 1..Len(started) : started[i] \in 0..3
    /\ \A k \in 0..3 : ~Started(k) => LayerRecord(k) = None
    /\ \A k \in 0..3 : \A j \in 0..(k - 1) :
          (Started(k) /\ Started(j)) => (LayerRecord(j) # None /\ ~LayerSucceeded(j))
    /\ \A k \in 0..3 : LayerSucceeded(k) =>
          /\ Returned /\ result.success /\ result.layer = k
          /\ \A j \in (k + 1)..3 :
                ~Started(j) /\ LayerRecord(j) = None /\ ReturnedRecord(j) = None

\* Layer 1 verified a candidate after Layer 0 found nothing: Layers 2 and 3
\* were not started and have no record
C3_Witness ==
    /\ Returned
    /\ result.layer = 1
    /\ started = <<0, 1>>
    /\ result.layer0_result # None
    /\ result.layer2_result = None
    /\ result.layer3_result = None

\* the one captured request is a GET with startDate, endDate and a page parameter
SingleDateGet ==
    /\ args.network_requests # None
    /\ Len(args.network_requests.all_requests) = 1
    /\ LET r == args.network_requests.all_requests[1]
       IN /\ r.method = "GET"
          /\ {K_startDate, K_endDate, K_pageNo} \subseteq DOMAIN flat_qs(r.url.query)
          /\ args.network_requests.api_requests \in {<<>>, <<r>>}

\* Layer 1 replayed the first candidate and the reply verified with data
Layer1Verified ==
    /\ _layer1_result # None
    /\ candidates # <<>>
    /\ candidates[1].is_verified
    /\ candidates[1].verification_result.success
    /\ candidates[1].verification_result.data_count > 0

\* C4: when Layer 0 yields no verified candidate, the only captured request is
\* a GET with startDate, endDate and a page parameter, and its replay verifies
\* with n > 0 items, the call returns success=true, layer=1, data_count=n and
\* the candidate built from that request as best_candidate.
C4_Layer1Success ==
    (SingleDateGet /\ ~LayerSucceeded(0) /\ Layer1Verified) =>
        /\ Returned
        /\ result.success
        /\ result.layer = 1
        /\ result.data_count = candidates[1].verification_result.data_count
        /\ result.best_candidate = candidates[1]
        /\ result.candidates = candidates
        /\ LET r == args.network_requests.all_requests[1]
           IN /\ result.best_candidate.url = r.url
              /\ result.best_candidate.method = "GET"
              /\ result.best_candidate.params = flat_qs(r.url.query)
              /\ DOMAIN result.best_candidate.date_params = {K_startDate, K_endDate}

\* the GET of the page without a browser: the reply holds two items
C4_Witness ==
    /\ Returned
    /\ args.network_requests = Requests(<<R_get>>, <<>>)
    /\ browser = None
    /\ result.success
    /\ result.layer = 1
    /\ result.data_count = 2
    /\ result.best_candidate.url = R_get.url

\* C5: every candidate the extractor holds or returns has a date parameter.
C5_CandidatesHaveDateParams ==
    /\ \A i \in 1..Len(candidates) : DOMAIN candidates[i].date_params # {}
    /\ Returned =>
          /\ \A i \in 1..Len(result.candidates) :
                DOMAIN result.candidates[i].date_params # {}
          /\ result.best_candidate # None =>
                DOMAIN result.best_candidate.date_params # {}

-----------------------------------------------------------------------------
(* Harness of format_date: a calendar date in the caller's YYYY-MM-DD form *)
(* is formatted into a supported format.                                   *)

SupportedFormats == {DATE_VALUE_PATTERNS[i].fmt : i \in 1..Len(DATE_VALUE_PATTERNS)}

FmYears == {2000, 2001, 2024, 2037}
FmDays == {1, 8, 9, 28, 29, 30, 31}

\* the valid calendar dates of the harness, as datetime values
FmCalendar ==
    {[ok |-> TRUE, y |-> y, m |-> m, d |-> d] :
        y \in FmYears, m \in 1..12, d \in FmDays} \cap
    {dt \in [ok : {TRUE}, y : FmYears, m : 1..12, d : FmDays] :
        dt.d <= days_in_month(dt.y, dt.m)}

FmInit ==
    /\ FmOthersIdle
    /\ fmPc = "input"
    /\ fmDate \in {strftime_joined(dt, <<"-">>) : dt \in FmCalendar}
    /\ fmFormat \in SupportedFormats
    /\ fmText = <<>>

FmFormat ==
    /\ fmPc = "input"
    /\ fmText' = format_date(fmDate, fmFormat)
    /\ fmPc' = "formatted"
    /\ UNCHANGED <<fmDate, fmFormat, fmOthers>>

FmNext == FmFormat

SpecFormat == FmInit /\ [][FmNext]_vars

\* the year, month and day read back from text are those of the date dt
recovers(text, fmt, dt) ==
    IF fmt \in {"YYYY-MM-DD", "YYYY/MM/DD", "YYYY-MM-DD HH:MM:SS"}
    THEN /\ Len(text) >= 10
         /\ SubSeq(text, 1, 4) = pad4(dt.y)
         /\ SubSeq(text, 6, 7) = pad2(dt.m)
         /\ SubSeq(text, 9, 10) = pad2(dt.d)
    ELSE IF fmt = "YYYYMMDD"
    THEN text = pad4(dt.y) \o pad2(dt.m) \o pad2(dt.d)
    ELSE IF fmt = "timestamp_s"
    THEN all_digits(text) /\ int_of(text) = timestamp_of(dt)
    ELSE /\ Len(text) > 3
         /\ all_digits(text)
         /\ SubSeq(text, Len(text) - 2, Len(text)) = <<"0","0","0">>
         /\ int_of(SubSeq(text, 1, Len(text) - 3)) = timestamp_of(dt)

\* C11: formatting a valid calendar date into a supported format F yields a
\* text the value patterns recognise as F and from which the same year,
\* month and day are read back (the epoch formats through int() without
\* drift); into YYYY-MM-DD it yields the date text itself.
C11_FormatRoundTrip ==
    fmPc = "formatted" =>
        /\ value_format(fmText) = fmFormat
        /\ recovers(fmText, fmFormat, strptime_ymd(fmDate))
        /\ fmFormat = "YYYY-MM-DD" => fmText = fmDate


-----------------------------------------------------------------------------
(* Harness of _validate_response: a parsed response is drawn and           *)
(* validated; then the reply of a verification replay is drawn and         *)
(* verify_candidate interprets it.                                         *)

\* a field the response object does not have
Absent == [t |-> "absent"]

\* the dict whose keys are the fields that are present
VlObject(fields) == Dict([k \in {j \in DOMAIN fields : fields[j] # Absent} |-> fields[k]])

\* a list of n items
VlList(n) == ListV([i \in 1..n |-> IntV(V_1)])

V_false == <<"f","a","l","s","e">>
V_E1 == <<"E","1">>
V_200 == <<"2","0","0">>
V_500 == <<"5","0","0">>
V_0 == <<"0">>
V_5 == <<"5">>
V_250 == <<"2","5","0">>

VlSuccess == {Absent, BoolV(TRUE), BoolV(FALSE), Str(V_false)}
VlCodes == {Absent, None, IntV(V_0), IntV(V_200), IntV(V_500),
            Str(V_200), Str(K_success), Str(<<>>), Str(V_E1)}
VlMessages == {Absent, Str(V_abc)}
VlDataFields ==
    {Absent, Str(V_abc)}
    \cup {VlList(n) : n \in 0..MaxItems}
    \cup {Dict([k \in {K_list} |-> VlList(n)]) : n \in 0..MaxItems}
VlResults == {Absent, VlList(0), VlList(1)}
VlPageHelps ==
    {Absent, Str(V_abc),
     Dict([k \in {K_data} |-> VlList(1)]),
     Dict([k \in {K_total} |-> IntV(V_0)]),
     Dict([k \in {K_total} |-> IntV(V_5)]),
     Dict([k \in {K_total} |-> IntV(V_250)])}

VlFieldKeys == {K_success, K_code, K_message, K_data, K_result, K_pageHelp}

VlResponses ==
    {None, VlList(1)}
    \cup {VlObject([k \in VlFieldKeys |->
                       IF k = K_success THEN f.success
                       ELSE IF k = K_code THEN f.code
                       ELSE IF k = K_message THEN f.message
                       ELSE IF k = K_data THEN f.data
                       ELSE IF k = K_result THEN f.result
                       ELSE f.pageHelp]) :
             f \in [success : VlSuccess, code : VlCodes, message : VlMessages,
                    data : VlDataFields, result : VlResults, pageHelp : VlPageHelps]}

VlReplies ==
    {[kind |-> "exception"], [kind |-> "status", code |-> 500],
     [kind |-> "text", text |-> J_success_false],
     [kind |-> "text", text |-> J_code_500],
     [kind |-> "text", text |-> V_abc],
     [kind |-> "text", text |-> <<"1">>]}
    \cup {[kind |-> "text", text |-> J_data(n)] : n \in 0..MaxItems}

VlCandidate ==
    _analyze_single_request(
        Request(Url(Host_site, Path_x, <<<<K_startDate, V_2024_01_01>>,
                                         <<K_endDate, V_2024_01_31>>>>), "GET"))

VlInit ==
    /\ VlOthersIdle
    /\ vlPc = "input"
    /\ vlData \in VlResponses
    /\ vlReply = None
    /\ vlValidation = None
    /\ vlVerification = None

VlValidate ==
    /\ vlPc = "input"
    /\ vlValidation' = _validate_response(vlData)
    /\ vlPc' = "validated"
    /\ UNCHANGED <<vlData, vlReply, vlVerification, vlOthers>>

VlVerify ==
    /\ vlPc = "validated"
    /\ \E reply \in VlReplies :
          /\ vlReply' = reply
          /\ vlVerification' = verify_candidate(VlCandidate, V_2024_01_01, V_2024_01_31,
                                                V_2024_01_31, reply)
    /\ vlPc' = "verified"
    /\ UNCHANGED <<vlData, vlValidation, vlOthers>>

VlNext == VlValidate \/ VlVerify

SpecValidate == VlInit /\ [][VlNext]_vars

\* the values of code that are no error: None, 0, 200, '0', '200', 'success'
AcceptedCodes ==
    {None, IntV(V_0), IntV(V_200), Str(V_0), Str(V_200), Str(K_success), BoolV(FALSE)}

\* the response carries success: false
HasSuccessFalse(data) ==
    data.t = "dict" /\ K_success \in DOMAIN data.obj /\ data.obj[K_success] = BoolV(FALSE)

\* the response carries an error code: a code that is not empty and is not
\* one of the accepted codes
HasErrorCode(data) ==
    /\ data.t = "dict"
    /\ K_code \in DOMAIN data.obj
    /\ data.obj[K_code] \notin AcceptedCodes
    /\ truthy(data.obj[K_code])

\* the outcome reported for the parsed response data is consistent
ConsistentOutcome(data, ok, data_count, error) ==
    /\ ok => /\ data_count > 0
             /\ ~HasSuccessFalse(data)
             /\ ~HasErrorCode(data)
             /\ error = ErrNone
    /\ ~ok => data_count = 0 /\ error # ErrNone

-----------------------------------------------------------------------------
(* Failure aggregation *)

\* the candidates Layer 1 discovers among the caller's network requests
Layer1Discovered ==
    IF args.network_requests = None THEN <<>>
    ELSE analyze_requests(args.network_requests)

\* candidate c, whatever its verification state, is among the candidates cs
Reported(c, cs) ==
    \E i \in 1..Len(cs) :
        /\ cs[i].url = c.url
        /\ cs[i].method = c.method
        /\ cs[i].date_params = c.date_params

-----------------------------------------------------------------------------
(* Harness of the end-date clamp of verify_candidate: a candidate, a range *)
(* and the current date are drawn, and the request of the verification     *)
(* replay is built.                                                        *)

CkYears == {2023, 2024, 2025}
CkMonths == {1, 2, 10, 12}
CkDays == {1, 9, 10, 28}

\* dates in YYYY-MM-DD form
CkDates ==
    {strftime_joined([ok |-> TRUE, y |-> y, m |-> m, d |-> d], <<"-">>) :
        y \in CkYears, m \in CkMonths, d \in CkDays}

V_2024_02_10 == <<"2","0","2","4","-","0","2","-","1","0">>
V_2024_10_09 == <<"2","0","2","4","-","1","0","-","0","9">>
V_2025_01_01 == <<"2","0","2","5","-","0","1","-","0","1">>
V_2025_10_09 == <<"2","0","2","5","-","1","0","-","0","9">>

CkTodays == {V_2024_02_10, V_2024_10_09}

\* startDate and endDate in the JSON body of a POST, with the captured values
Ck_post(start_value, end_value) ==
    [Request(Url(Host_site, Path_x, <<>>), "POST") EXCEPT
        !.postData = [t |-> "json",
                      obj |-> [j \in {K_startDate, K_endDate, K_pageNo} |->
                                  IF j = K_startDate THEN Str(start_value)
                                  ELSE IF j = K_endDate THEN Str(end_value)
                                  ELSE IntV(V_1)]]]

CkRequests == {Ck_post(V_2024_01_01, V_2024_01_31), Ck_post(V_20240101, V_20240101),
               Rp_named(Host_site)}

CkInit ==
    /\ CkOthersIdle
    /\ ckPc = "input"
    /\ ckCandidate \in {_analyze_single_request(r) : r \in CkRequests}
    /\ ckRange \in [start : CkDates, end : CkDates]
    /\ ckToday \in CkTodays
    /\ ckRequest = None

\* verify_candidate up to the request it sends
CkVerify ==
    /\ ckPc = "input"
    /\ ckRequest' = verification_request(ckCandidate, ckRange.start, ckRange.end, ckToday)
    /\ ckPc' = "sent"
    /\ UNCHANGED <<ckCandidate, ckRange, ckToday, ckOthers>>

CkNext == CkVerify

SpecClamp == CkInit /\ [][CkNext]_vars

\* the calendar order of two dates in YYYY-MM-DD form
date_number(date_str) ==
    int_of(SubSeq(date_str, 1, 4)) * 10000 + int_of(SubSeq(date_str, 6, 7)) * 100
    + int_of(SubSeq(date_str, 9, 10))

NotLater(a, b) == date_number(a) <= date_number(b)

Earlier(a, b) == IF NotLater(a, b) THEN a ELSE b

\* the value the request carries for the date parameter k
Substituted(k) ==
    IF ckCandidate.method = "POST" THEN ckRequest.body[k].s
    ELSE replayed_qs(ckRequest.url.query, k)[1]

\* C14: the request of a verification replay carries min(end, today) as its
\* end date and a start date not later than that; a range that lies in the
\* past is carried unchanged.
C14_EndDateClamp ==
    ckPc = "sent" =>
        LET fs == ckCandidate.date_params[K_startDate]
            fe == ckCandidate.date_params[K_endDate]
            e == Earlier(ckRange.end, ckToday)
        IN /\ Substituted(K_endDate) = quote_plus(format_date(e, fe))
           /\ \E d \in {ckRange.start, ckRange.end, ckToday} :
                 /\ NotLater(d, e)
                 /\ Substituted(K_startDate) = quote_plus(format_date(d, fs))
           /\ (NotLater(ckRange.start, ckRange.end) /\ NotLater(ckRange.end, ckToday)) =>
                 /\ Substituted(K_startDate) = quote_plus(format_date(ckRange.start, fs))
                 /\ Substituted(K_endDate) = quote_plus(format_date(ckRange.end, fe))

\* a range that lies in the future, 2025-01-01..2025-10-09 on 2024-02-10, is
\* replayed as 2024-02-10..2024-02-10
C14_Witness ==
    /\ ckPc = "sent"
    /\ ckCandidate.method = "POST"
    /\ ckCandidate.date_params[K_endDate] = "YYYY-MM-DD"
    /\ ckRange = [start |-> V_2025_01_01, end |-> V_2025_10_09]
    /\ ckToday = V_2024_02_10
    /\ ckRequest.body[K_startDate] = Str(V_2024_02_10)
    /\ ckRequest.body[K_endDate] = Str(V_2024_02_10)


-----------------------------------------------------------------------------
(* Harness of cancellation: the coroutine of extract_with_three_layers     *)
(* from the detection of the date picker in Layer 2 on, one action per     *)
(* await point.  ccPc is the await the coroutine is suspended at.  The     *)
(* enclosing task may be cancelled while it is suspended; the next resume  *)
(* raises CancelledError at that await.  CancelledError is a BaseException: *)
(* `except Exception` lets it pass, a bare `except:` catches it.           *)

\* the trigger selectors tried by _detect_date_picker
MaxSelectors == 2
\* the elements a selector matches
MaxElements == 2
\* the selectors tried by _click_submit_button
MaxButtons == 2

\* the awaits that operate the page, replay a request or open a layer
PageInteractions ==
    {"query_all", "is_visible", "evaluate", "query_button", "button_visible", "click",
     "fallback_evaluate"}

\* the coroutine goes on to the await p
Goto(p, delivered) ==
    /\ ccPc' = p
    /\ ccAfter' = IF delivered /\ p \notin {"cancelled", "returned"}
                  THEN ccAfter \cup {p} ELSE ccAfter

\* the coroutine is resumed at an await that no bare except encloses:
\* CancelledError leaves extract_with_three_layers
Propagates ==
    /\ ccCancel = "requested"
    /\ ccCancel' = "delivered"
    /\ Goto("cancelled", TRUE)
    /\ UNCHANGED <<ccSel, ccEls, ccEl>>

CcInit ==
    /\ CcOthersIdle
    /\ ccPc = "query_all"
    /\ ccSel = 1
    /\ ccEls = 0
    /\ ccEl = 0
    /\ ccCancel = "none"
    /\ ccAfter = {}

\* task.cancel() while the coroutine is suspended
Cancel ==
    /\ ccPc \notin {"cancelled", "returned"}
    /\ ccCancel = "none"
    /\ ccCancel' = "requested"
    /\ UNCHANGED <<ccPc, ccSel, ccEls, ccEl, ccAfter, ccOthers>>

\* Layer 2 has failed and Layer 3 takes its screenshot
ToLayer3(delivered) == Goto("screenshot", delivered) /\ UNCHANGED <<ccSel, ccEls, ccEl>>

\* `continue` of the loop over the selector configurations
NextSelector(delivered) ==
    IF ccSel < MaxSelectors
    THEN Goto("query_all", delivered) /\ ccSel' = ccSel + 1 /\ UNCHANGED <<ccEls, ccEl>>
    ELSE ToLayer3(delivered)

\* `continue` of the loop over the elements; no visible element: next selector
NextElement(delivered) ==
    IF ccEl < ccEls
    THEN Goto("is_visible", delivered) /\ ccEl' = ccEl + 1 /\ UNCHANGED <<ccSel, ccEls>>
    ELSE NextSelector(delivered)

\* elements = await self.browser.page.query_selector_all(trigger_selector)
QuerySelectorAll ==
    /\ ccPc = "query_all"
    /\ \/ Propagates
       \/ /\ ccCancel # "requested"
          /\ ccCancel' = ccCancel
          /\ \E outcome \in -1..MaxElements :    \* -1: the query raises
                IF outcome = -1 THEN ToLayer3(ccCancel = "delivered")
                ELSE IF outcome = 0 THEN NextSelector(ccCancel = "delivered")
                ELSE /\ Goto("is_visible", ccCancel = "delivered")
                     /\ ccEls' = outcome
                     /\ ccEl' = 1
                     /\ ccSel' = ccSel
    /\ UNCHANGED ccOthers

\* try: if require_visible and not await el.is_visible(): continue ...
\* except: continue
IsVisible ==
    /\ ccPc = "is_visible"
    /\ \/ /\ ccCancel = "requested"
          /\ ccCancel' = "delivered"
          /\ NextElement(TRUE)
       \/ /\ ccCancel # "requested"
          /\ ccCancel' = ccCancel
          /\ \E outcome \in {"visible", "hidden", "raise"} :
                IF outcome = "visible"
                THEN Goto("evaluate", ccCancel = "delivered")
                     /\ UNCHANGED <<ccSel, ccEls, ccEl>>
                ELSE NextElement(ccCancel = "delivered")
    /\ UNCHANGED ccOthers

\* info = await self.browser.page.evaluate(..., visible_element); a picker
\* that is found is operated, which ends in _click_submit_button
Evaluate ==
    /\ ccPc = "evaluate"
    /\ \/ Propagates
       \/ /\ ccCancel # "requested"
          /\ ccCancel' = ccCancel
          /\ \E outcome \in {"info", "null", "raise"} :
                IF outcome = "info"
                THEN /\ Goto("query_button", ccCancel = "delivered")
                     /\ ccEl' = 1
                     /\ UNCHANGED <<ccSel, ccEls>>
                ELSE IF outcome = "null" THEN NextSelector(ccCancel = "delivered")
                ELSE ToLayer3(ccCancel = "delivered")
    /\ UNCHANGED ccOthers

\* `continue` of the loop over the button selectors; after the last one the
\* button is looked for by a page script
NextButton(delivered) ==
    IF ccEl < MaxButtons
    THEN Goto("query_button", delivered) /\ ccEl' = ccEl + 1 /\ UNCHANGED <<ccSel, ccEls>>
    ELSE Goto("fallback_evaluate", delivered) /\ UNCHANGED <<ccSel, ccEls, ccEl>>

\* one await of: try: btn = await page.query_selector(sel); if btn and
\* await btn.is_visible(): await btn.click(); return True  except: continue
ButtonStep(at, next) ==
    /\ ccPc = at
    /\ \/ /\ ccCancel = "requested"
          /\ ccCancel' = "delivered"
          /\ NextButton(TRUE)
       \/ /\ ccCancel # "requested"
          /\ ccCancel' = ccCancel
          /\ \E outcome \in {"ok", "no", "raise"} :
                IF outcome = "ok"
                THEN Goto(next, ccCancel = "delivered") /\ UNCHANGED <<ccSel, ccEls, ccEl>>
                ELSE NextButton(ccCancel = "delivered")
    /\ UNCHANGED ccOthers

QueryButton == ButtonStep("query_button", "button_visible")

ButtonVisible == ButtonStep("button_visible", "click")

\* a click that raises is caught and the next selector is tried
Click == ButtonStep("click", "network_wait")

\* an await outside any bare except: its outcome is ok (the coroutine goes
\* on to the await next) or a failure of Layer 2 (Layer 3 follows)
PlainStep(at, next) ==
    /\ ccPc = at
    /\ \/ Propagates
       \/ /\ ccCancel # "requested"
          /\ ccCancel' = ccCancel
          /\ \E outcome \in {"ok", "fail"} :
                IF outcome = "ok"
                THEN Goto(next, ccCancel = "delivered") /\ UNCHANGED <<ccSel, ccEls, ccEl>>
                ELSE ToLayer3(ccCancel = "delivered")
    /\ UNCHANGED ccOthers

\* result = await page.evaluate(...) of _click_submit_button
FallbackEvaluate == PlainStep("fallback_evaluate", "network_wait")

\* await self.browser.wait_for_network_idle(...)
NetworkWait == PlainStep("network_wait", "replay")

\* resp = await client.get(...) of verify_candidate, under `except Exception`
Replay == PlainStep("replay", "returned")

\* screenshot_base64 = await self.browser.take_screenshot_base64() of Layer 3
Screenshot ==
    /\ ccPc = "screenshot"
    /\ \/ Propagates
       \/ /\ ccCancel # "requested"
          /\ ccCancel' = ccCancel
          /\ Goto("returned", ccCancel = "delivered")
          /\ UNCHANGED <<ccSel, ccEls, ccEl>>
    /\ UNCHANGED ccOthers

CcNext ==
    \/ Cancel \/ QuerySelectorAll \/ IsVisible \/ Evaluate
    \/ QueryButton \/ ButtonVisible \/ Click \/ FallbackEvaluate
    \/ NetworkWait \/ Replay \/ Screenshot

SpecCancel == CcInit /\ [][CcNext]_vars

\* C15: once the cancellation has been delivered to the coroutine it has
\* left extract_with_three_layers, and no page interaction, verification
\* replay or layer was started after the delivery.
C15_CooperativeCancellation ==
    ccCancel = "delivered" =>
        /\ ccPc = "cancelled"
        /\ ccAfter \cap (PageInteractions \cup {"replay", "screenshot"}) = {}


-----------------------------------------------------------------------------
(* Harness of the capture windows: the coroutine of Layers 2 and 3, one    *)
(* action per stretch of code between two awaits, interleaved with the     *)
(* request callback of the browser (BrowserController.on_request), which   *)
(* runs on the same event loop whenever the coroutine is suspended.  Each  *)
(* captured request is tagged with the number of clears done before it     *)
(* was captured.                                                           *)

\* the requests captured in one run
MaxCaptured == 3

\* get_captured_requests returns the last 50 requests and the last 20 API requests
AllTail == 50
ApiTail == 20

W_ajax == <<"a","j","a","x">>
W_json == <<"j","s","o","n">>
W_post == <<"p","o","s","t">>

api_keywords == {W_api, W_ajax, W_json, W_data, W_list, W_search, W_query, W_page, W_get,
                 W_post}

\* a date request without an API keyword, one under /api/, and a style sheet
Cw_plain == Request(Url(Host_site, Path_x, DateRangeQuery), "GET")
Cw_api == Request(Url(Host_site, Path_api_x, DateRangeQuery), "GET")
Cw_css == Request(Url(Host_site, <<"/","a",".","c","s","s">>, <<>>), "GET")

CwPageRequests == {Cw_plain, Cw_api, Cw_css}

\* any(kw in url_lower for kw in api_keywords) or method == "POST"
is_api_request(req) ==
    (\E kw \in api_keywords : url_contains(req.url, kw)) \/ req.method = "POST"

\* a faulty variant of cleared: only the list of all requests is emptied
cleared_all_only(network_requests, api_requests) ==
    [network_requests |-> <<>>, api_requests |-> api_requests]

\* self.browser.network_requests.clear(); self.browser.api_requests.clear()
cleared(network_requests, api_requests) ==
    [network_requests |-> <<>>, api_requests |-> <<>>]

\* seq[-n:]
last_n(seq, n) == SubSeq(seq, Max(1, Len(seq) - n + 1), Len(seq))

\* get_captured_requests()
get_captured_requests ==
    [all_requests |-> last_n(cwAll, AllTail), api_requests |-> last_n(cwApi, ApiTail)]

\* the request dicts of tagged entries
requests_of(entries) == [i \in 1..Len(entries) |-> entries[i].req]

CwInit ==
    /\ CwOthersIdle
    /\ cwPc = "load"
    /\ cwAll = <<>>
    /\ cwApi = <<>>
    /\ cwWindow = 0
    /\ cwAnalysed = <<>>

\* on_request: a static resource is skipped, any other request is recorded
\* and, when it looks like an API call, recorded in the API list as well
OnRequest ==
    /\ cwPc \notin {"idle", "done"}
    /\ Len(cwAll) < MaxCaptured
    /\ \E r \in CwPageRequests :
       \E req_info \in {[req |-> r, window |-> cwWindow]} :
          IF has_static_extension(r.url)
          THEN UNCHANGED <<cwAll, cwApi>>
          ELSE /\ cwAll' = Append(cwAll, req_info)
               /\ cwApi' = IF is_api_request(r) THEN Append(cwApi, req_info) ELSE cwApi
    /\ UNCHANGED <<cwPc, cwWindow, cwAnalysed, cwOthers>>

\* the page is loaded and Layer 1 has failed: Layer 2 awaits the detection
StartLayer2 ==
    /\ cwPc = "load"
    /\ cwPc' = "detect2"
    /\ UNCHANGED <<cwAll, cwApi, cwWindow, cwAnalysed, cwOthers>>

\* the lists are cleared and the layer awaits the operation of the control
ClearAndOperate(next) ==
    \E lists \in {cleared(cwAll, cwApi)} :
       /\ cwAll' = lists.network_requests
       /\ cwApi' = lists.api_requests
       /\ cwWindow' = cwWindow + 1
       /\ cwPc' = next

\* the layer fails before it clears anything
FailTo(next) == cwPc' = next /\ UNCHANGED <<cwAll, cwApi, cwWindow>>

\* Layer 2 from the return of _detect_date_picker to _operate_date_picker
Detect2 ==
    /\ cwPc = "detect2"
    /\ \E found \in BOOLEAN :
          IF found THEN ClearAndOperate("operate2") ELSE FailTo("vision3")
    /\ UNCHANGED <<cwAnalysed, cwOthers>>

\* the operation returns: the layer waits for the network, or fails
Operated(at, wait, failed) ==
    /\ cwPc = at
    /\ \E operate_success \in BOOLEAN :
          cwPc' = IF operate_success THEN wait ELSE failed
    /\ UNCHANGED <<cwAll, cwApi, cwWindow, cwAnalysed, cwOthers>>

Operate2 == Operated("operate2", "wait2", "vision3")

\* the wait returns: the captured requests are read and analysed, the
\* candidates verified; a layer without a verified candidate fails
Analysed(at, layer, failed) ==
    /\ cwPc = at
    /\ \E new_requests \in {get_captured_requests} :
       \E found \in {analyze_requests(
                        [all_requests |-> requests_of(new_requests.all_requests),
                         api_requests |-> requests_of(new_requests.api_requests)])} :
          /\ cwAnalysed' = Append(cwAnalysed, [layer |-> layer, window |-> cwWindow,
                                               requests |-> new_requests,
                                               candidates |-> found])
          /\ \E verified \in BOOLEAN :
                cwPc' = IF found # <<>> /\ verified THEN "done" ELSE failed
    /\ UNCHANGED <<cwAll, cwApi, cwWindow, cwOthers>>

Analyse2 == Analysed("wait2", 2, "vision3")

\* Layer 3 from the answer of the LLM to _execute_llm_instruction
Vision3 ==
    /\ cwPc = "vision3"
    /\ \E found \in BOOLEAN :
          IF found THEN ClearAndOperate("operate3") ELSE FailTo("done")
    /\ UNCHANGED <<cwAnalysed, cwOthers>>

Operate3 == Operated("operate3", "wait3", "done")

Analyse3 == Analysed("wait3", 3, "done")

CwNext ==
    \/ OnRequest \/ StartLayer2 \/ Detect2 \/ Operate2 \/ Analyse2
    \/ Vision3 \/ Operate3 \/ Analyse3

SpecCapture == CwInit /\ [][CwNext]_vars

\* every entry of the list was captured after `clears` clears
CapturedIn(entries, clears) == \A i \in 1..Len(entries) : entries[i].window = clears

\* C16: what Layer 2 or Layer 3 analyses was captured after the clear of
\* that layer, in both lists, under every interleaving of the request
\* callback with the steps of the layer; a request captured during page
\* load or an earlier layer is not among the analysed requests, so none
\* becomes a candidate of the layer.
C16_CaptureWindowIsolation ==
    \A n \in 1..Len(cwAnalysed) :
        LET a == cwAnalysed[n]
        IN /\ a.window >= 1
           /\ a.layer = 3 => \A m \in 1..(n - 1) : cwAnalysed[m].window < a.window
           /\ CapturedIn(a.requests.all_requests, a.window)
           /\ CapturedIn(a.requests.api_requests, a.window)
           /\ \A i \in 1..Len(a.candidates) :
                 \E j \in 1..Len(a.requests.all_requests) :
                    a.requests.all_requests[j].req.url = a.candidates[i].url

\* requests were captured while the page loaded, Layer 2 analysed two
\* requests captured after its clear, and Layer 3 analyses the one request
\* captured after its own clear
C16_Witness ==
    /\ cwPc = "done"
    /\ Len(cwAnalysed) = 2
    /\ cwAnalysed[1].layer = 2
    /\ cwAnalysed[1].requests.all_requests =
          <<[req |-> Cw_plain, window |-> 1], [req |-> Cw_api, window |-> 1]>>
    /\ cwAnalysed[2].layer = 3
    /\ cwAnalysed[2].requests.all_requests = <<[req |-> Cw_api, window |-> 2]>>
    /\ cwAnalysed[2].requests.api_requests = <<[req |-> Cw_api, window |-> 2]>>
    /\ Len(cwAnalysed[2].candidates) = 1


-----------------------------------------------------------------------------
(* Harness of the steps of one extraction: extract_with_three_layers with  *)
(* one action per collaborator call (page script, element operation,      *)
(* screenshot and vision call, HTTP replay), each of which returns or      *)
(* raises.  tmReplays counts the verification replays of each layer.       *)

\* the candidates an analysis finds
MaxCandidates == 4
\* the year and month clicks of _select_date_in_laydate: abs(year_diff) and
\* abs(month_diff) of the page's calendar
MaxDiff == 2

\* a faulty variant of top_candidates: every candidate is verified
top_candidates_all(n) == n

\* len(candidates[:3])
top_candidates(n) == Min(n, MaxVerified)

NoReplays == [k \in 0..3 |-> 0]

TmInit ==
    /\ TmOthersIdle
    /\ tmPc = "layer0"
    /\ tmBrowser \in BOOLEAN
    /\ tmLlm \in BOOLEAN
    /\ tmLeft = 0
    /\ tmBest = FALSE
    /\ tmClicks = 0
    /\ tmReplays = NoReplays

TmFrame == UNCHANGED <<tmBrowser, tmLlm, tmOthers>>

\* Layer 0: the scan script runs in the page; a configuration that is found
\* is built into a candidate, which is replayed once
TmScan ==
    /\ tmPc = "layer0"
    /\ IF tmBrowser
       THEN \E found \in BOOLEAN : tmPc' = IF found THEN "replay0" ELSE "layer1"
       ELSE tmPc' = "layer1"
    /\ UNCHANGED <<tmLeft, tmBest, tmClicks, tmReplays>>
    /\ TmFrame

TmReplay0 ==
    /\ tmPc = "replay0"
    /\ tmReplays' = [tmReplays EXCEPT ![0] = @ + 1]
    /\ \E success \in BOOLEAN : tmPc' = IF success THEN "finished" ELSE "layer1"
    /\ UNCHANGED <<tmLeft, tmBest, tmClicks>>
    /\ TmFrame

\* the analysis of a layer has found n candidates: none fails the layer,
\* else the first three are verified
TmAnalysed(n, replay, failed) ==
    /\ tmPc' = IF n = 0 THEN failed ELSE replay
    /\ tmLeft' = top_candidates(n)
    /\ tmBest' = FALSE

\* Layer 1: analyze_requests on the caller's requests
TmAnalyse1 ==
    /\ tmPc = "layer1"
    /\ \E n \in 0..MaxCandidates : TmAnalysed(n, "replay1", "layer2")
    /\ UNCHANGED <<tmClicks, tmReplays>>
    /\ TmFrame

\* one iteration of `for candidate in candidates[:3]` of Layers 1 and 2:
\* the loop runs to its end, the best verified candidate wins
TmReplayAll(at, layer, failed) ==
    /\ tmPc = at
    /\ tmReplays' = [tmReplays EXCEPT ![layer] = @ + 1]
    /\ tmLeft' = tmLeft - 1
    /\ \E success \in BOOLEAN :
          /\ tmBest' = (tmBest \/ success)
          /\ tmPc' = IF tmLeft > 1 THEN at
                     ELSE IF tmBest \/ success THEN "finished" ELSE failed
    /\ UNCHANGED tmClicks
    /\ TmFrame

TmReplay1 == TmReplayAll("replay1", 1, "layer2")

\* Layer 2: _detect_date_picker, skipped without a browser
TmDetect2 ==
    /\ tmPc = "layer2"
    /\ IF tmBrowser
       THEN \E found \in BOOLEAN : tmPc' = IF found THEN "operate2" ELSE "layer3"
       ELSE tmPc' = "layer3"
    /\ UNCHANGED <<tmLeft, tmBest, tmClicks, tmReplays>>
    /\ TmFrame

\* _operate_date_picker returns True or False, or raises
TmOperate2 ==
    /\ tmPc = "operate2"
    /\ \E operate_success \in BOOLEAN : tmPc' = IF operate_success THEN "wait2" ELSE "layer3"
    /\ UNCHANGED <<tmLeft, tmBest, tmClicks, tmReplays>>
    /\ TmFrame

\* the wait for the network returns and the captured requests are analysed
TmWait2 ==
    /\ tmPc = "wait2"
    /\ \E n \in 0..MaxCandidates : TmAnalysed(n, "replay2", "layer3")
    /\ UNCHANGED <<tmClicks, tmReplays>>
    /\ TmFrame

TmReplay2 == TmReplayAll("replay2", 2, "layer3")

\* Layer 3: the screenshot and the vision call, skipped without an llm or a
\* browser; the instruction may open a calendar that is paged to the target
TmVision3 ==
    /\ tmPc = "layer3"
    /\ IF tmBrowser /\ tmLlm
       THEN \E found \in BOOLEAN :
               IF found
               THEN tmPc' = "navigate3" /\ tmClicks' \in 0..MaxDiff
               ELSE tmPc' = "failed" /\ tmClicks' = tmClicks
       ELSE tmPc' = "failed" /\ tmClicks' = tmClicks
    /\ UNCHANGED <<tmLeft, tmBest, tmReplays>>
    /\ TmFrame

\* one iteration of `for _ in range(abs(year_diff))`: the arrow is queried
\* and clicked; a click that raises fails the layer
TmNavigate3 ==
    /\ tmPc = "navigate3"
    /\ IF tmClicks = 0
       THEN tmPc' = "wait3" /\ tmClicks' = 0
       ELSE \E raised \in BOOLEAN :
               /\ tmPc' = IF raised THEN "failed" ELSE "navigate3"
               /\ tmClicks' = IF raised THEN 0 ELSE tmClicks - 1
    /\ UNCHANGED <<tmLeft, tmBest, tmReplays>>
    /\ TmFrame

TmWait3 ==
    /\ tmPc = "wait3"
    /\ \E n \in 0..MaxCandidates : TmAnalysed(n, "replay3", "failed")
    /\ UNCHANGED <<tmClicks, tmReplays>>
    /\ TmFrame

\* one iteration of the loop of Layer 3, which returns at the first success
TmReplay3 ==
    /\ tmPc = "replay3"
    /\ tmReplays' = [tmReplays EXCEPT ![3] = @ + 1]
    /\ tmLeft' = tmLeft - 1
    /\ \E success \in BOOLEAN :
          /\ tmBest' = success
          /\ tmPc' = IF success THEN "finished"
                     ELSE IF tmLeft > 1 THEN "replay3" ELSE "failed"
    /\ UNCHANGED tmClicks
    /\ TmFrame

\* every layer failed: the failure result is returned, or building it raises
TmAllFailed ==
    /\ tmPc = "failed"
    /\ tmPc' = "finished"
    /\ UNCHANGED <<tmLeft, tmBest, tmClicks, tmReplays>>
    /\ TmFrame

TmNext ==
    \/ TmScan \/ TmReplay0 \/ TmAnalyse1 \/ TmReplay1
    \/ TmDetect2 \/ TmOperate2 \/ TmWait2 \/ TmReplay2
    \/ TmVision3 \/ TmNavigate3 \/ TmWait3 \/ TmReplay3 \/ TmAllFailed

\* every collaborator call that was issued returns or raises
SpecTerminates == TmInit /\ [][TmNext]_vars /\ WF_vars(TmNext)

TotalReplays == tmReplays[0] + tmReplays[1] + tmReplays[2] + tmReplays[3]

ReplayBudget ==
    /\ tmReplays[0] <= 1
    /\ \A k \in 1..3 : tmReplays[k] <= 3
    /\ TotalReplays <= 10

\* C17: provided every collaborator call returns or raises, a call of
\* extract_with_three_layers finishes, and it never issues more than one
\* verification replay in Layer 0, three in each of Layers 1, 2 and 3, ten
\* in all.
C17_NeverHangs == [](tmPc # "idle" => ReplayBudget) /\ <>(tmPc = "finished")

\* an extraction that finished after ten replays
C17_Witness ==
    /\ tmPc = "finished"
    /\ tmReplays = [k \in 0..3 |-> IF k = 0 THEN 1 ELSE 3]


-----------------------------------------------------------------------------
(* The winner of Layer 1 *)

\* candidate c of Layer 1 verified with a non-zero item count and passes the
\* sanity filter
Acceptable(c) ==
    /\ c.is_verified
    /\ c.verification_result.success
    /\ c.verification_result.data_count > 0
    /\ passes_sanity_check(c)

\* C18: Layer 1 verifies the three highest-confidence candidates, in
\* descending order of confidence, and the best_candidate it returns is the
\* first of them that verifies with a non-zero item count and passes the
\* sanity filter, also when a later one verifies with a larger count.
C18_Layer1Winner ==
    (Returned /\ result.success /\ result.layer = 1) =>
        LET cs == result.candidates
            top == 1..Min(Len(cs), 3)
        IN /\ \A i \in 1..Len(cs) : cs[i].is_verified <=> i \in top
           /\ \A i \in 1..Len(cs) : \A j \in i..Len(cs) :
                 cs[i].confidence >= cs[j].confidence
           /\ \E i \in top :
                 /\ Acceptable(cs[i])
                 /\ \A j \in 1..(i - 1) : ~Acceptable(cs[j])
                 /\ result.best_candidate = cs[i]


-----------------------------------------------------------------------------
(* The verification loop of Layers 1, 2 and 3, one candidate per step *)

Lp_html == <<"<","h","t","m","l",">">>

\* what a replay can come back with: a transport exception, a status other
\* than 200, a body that is no JSON, an empty result, an explicit failure
\* flag, and lists of items
LpReplies ==
    {[kind |-> "exception"], [kind |-> "status", code |-> 500]}
    \cup {[kind |-> "text", text |-> t] :
             t \in {Lp_html, J_success_false} \cup {J_data(n) : n \in 0..MaxItems}}

\* the requests the layer analyses
LpNetworks == {
    Requests(<<R_get>>, <<>>),
    Requests(<<R_range, R_timer>>, <<>>),
    Requests(<<R_get, R_body, R_post_bulletin, R_timer>>, <<>>) }

\* a faulty variant of loop_next: the loop is left at the first candidate
\* whose verification fails
loop_next_abort(layer, verification) ==
    IF verification.success /\ layer # 3 THEN "continue" ELSE "return"

\* what the loop body does after a verification: Layers 1 and 2 have no
\* break or return in the loop, Layer 3 returns at the first success
loop_next(layer, verification) ==
    IF layer = 3 /\ better_verified(verification, 0) THEN "return" ELSE "continue"

\* best_candidate and best_data_count after the loop body
loop_best(layer, candidate, verification, best) ==
    IF /\ better_verified(verification, IF layer = 3 THEN 0 ELSE best.best_data_count)
       /\ layer = 1 => passes_sanity_check(candidate)
    THEN [best_candidate |-> candidate, best_data_count |-> verification.data_count]
    ELSE best

LpInit ==
    /\ lpPc = "loop"
    /\ lpLayer \in 1..3
    /\ \E requests \in LpNetworks : lpCandidates = analyze_requests(requests)
    /\ lpIndex = 1
    /\ lpBest = [best_candidate |-> None, best_data_count |-> 0]
    /\ lpTried = <<>>
    /\ LpOthersIdle

\* one pass of `for candidate in candidates[:3]`, and the return after the
\* loop when this was the last pass
LpVerify ==
    /\ lpPc = "loop"
    /\ lpIndex <= Min(Len(lpCandidates), MaxVerified)
    /\ \E reply \in LpReplies :
         \E verification \in {verify_candidate(lpCandidates[lpIndex], V_2024_01_01,
                                               V_2024_01_31, V_2024_01_31, reply)} :
         \E best \in {loop_best(lpLayer, lpCandidates[lpIndex], verification, lpBest)} :
           /\ lpTried' = Append(lpTried, [index |-> lpIndex, reply |-> reply.kind,
                                          verification |-> verification])
           /\ lpBest' = best
           /\ lpCandidates' =
                 IF lpLayer = 1
                 THEN [lpCandidates EXCEPT ![lpIndex].is_verified = TRUE,
                                           ![lpIndex].verification_result = verification]
                 ELSE lpCandidates
           /\ lpIndex' = lpIndex + 1
           /\ lpPc' = IF /\ loop_next(lpLayer, verification) = "continue"
                         /\ lpIndex < Min(Len(lpCandidates), MaxVerified)
                      THEN "loop"
                      ELSE IF best.best_candidate # None THEN "succeeded" ELSE "failed"
    /\ UNCHANGED <<lpLayer, lpOthers>>

LpNext == LpVerify

SpecLayerLoop == LpInit /\ [][LpNext]_vars

\* the verification of the k-th tried candidate gave an acceptable result
LpAcceptable(k) ==
    /\ better_verified(lpTried[k].verification, 0)
    /\ lpLayer = 1 => passes_sanity_check(lpCandidates[lpTried[k].index])

\* C19: in Layers 1, 2 and 3 the candidates are tried in rank order, a
\* candidate whose verification fails is followed by the next of the top
\* three, and the layer fails only when all of its top three (or fewer) have
\* been tried and none gave an acceptable result
C19_FailureNeverAborts ==
    LET top == Min(Len(lpCandidates), MaxVerified)
    IN lpPc # "idle" =>
         /\ Len(lpTried) <= top
         /\ \A k \in 1..Len(lpTried) : lpTried[k].index = k
         /\ (lpPc # "loop" /\ Len(lpTried) < top) => LpAcceptable(Len(lpTried))
         /\ lpPc = "failed" =>
               /\ Len(lpTried) = top
               /\ \A k \in 1..top : ~LpAcceptable(k)
         /\ lpPc = "succeeded" => \E k \in 1..Len(lpTried) : LpAcceptable(k)

\* a layer whose first two candidates fail, one by an HTTP status and one by
\* a transport exception, and whose third candidate verifies
C19_Witness ==
    /\ lpPc = "succeeded"
    /\ Len(lpTried) = 3
    /\ lpTried[1].reply = "status" /\ ~LpAcceptable(1)
    /\ lpTried[2].reply = "exception" /\ ~LpAcceptable(2)
    /\ LpAcceptable(3)
-----------------------------------------------------------------------------
(* Layer 0 over the configurations of a scan *)

\* the longest list of configurations of a scan
MaxConfigs == 2

\* a page object with an API URL and a start date only
Cfg_start ==
    Config(V_config, ApiUrl("path", Url(<<>>, Path_y, <<>>)),
           [k \in {K_startDate} |-> Str(<<>>)],
           [k \in {K_startDate} |-> Str(<<>>)],
           "YYYY-MM-DD", FALSE, "generic_scan")

ScConfigs == {Cfg_dates, Cfg_start, Cfg_nodates}

\* the lists of distinct configurations a scan reports
ScScans ==
    UNION {{cs \in [1..n -> ScConfigs] : \A i, j \in 1..n : cs[i] = cs[j] => i = j} :
              n \in 0..MaxConfigs}

\* the place of a configuration in the list of the scan
config_index(api_configs, config) == CHOOSE i \in 1..Len(api_configs) : api_configs[i] = config

\* scServer[i] is what the endpoint of configuration i answers to a replay
ScInit ==
    /\ scPc = "scan"
    /\ scConfigs \in ScScans
    /\ scServer \in [1..Len(scConfigs) -> Replies]
    /\ scLayer0 = None
    /\ scTried = <<>>
    /\ scResult = None
    /\ ScOthersIdle

\* layer0_result = await self._try_layer0_global_var_scan(...)
ScScan ==
    /\ scPc = "scan"
    /\ \E layer0_result \in {_try_layer0_global_var_scan(
                                 [kind |-> "result",
                                  result |-> ScanResult(TRUE, ErrNone, scConfigs)],
                                 NoHook)} :
          /\ scLayer0' = layer0_result
          /\ scPc' = IF layer_succeeded(layer0_result) THEN "verify" ELSE "layer1"
    /\ UNCHANGED <<scConfigs, scServer, scTried, scResult, scOthers>>

\* the candidate of the selected configuration is built and replayed; the
\* extraction returns when it verifies and goes on to Layer 1 when not
ScVerify ==
    /\ scPc = "verify"
    /\ \E candidate \in {_build_candidate_from_global_var(scLayer0, PageHost)} :
       \E index \in {config_index(scConfigs, select_config(scConfigs, 1, None))} :
       \E verify_result \in {verify_candidate(candidate, V_2024_01_01, V_2024_01_31,
                                              V_2024_01_31, scServer[index])} :
          /\ scTried' = Append(scTried, index)
          /\ IF verify_result.success
             THEN /\ scResult' = [success |-> TRUE, layer |-> 0,
                                  best_candidate |-> candidate,
                                  data_count |-> verify_result.data_count]
                  /\ scPc' = "returned"
             ELSE /\ scResult' = scResult
                  /\ scPc' = "layer1"
    /\ UNCHANGED <<scConfigs, scServer, scLayer0, scOthers>>

ScNext == ScScan \/ ScVerify

SpecLayer0 == ScInit /\ [][ScNext]_vars

\* the replay of the candidate of configuration i verifies
WouldVerify(i) ==
    verify_candidate(_build_candidate_from_global_var(scConfigs[i], PageHost),
                     V_2024_01_01, V_2024_01_31, V_2024_01_31, scServer[i]).success

\* C20: when Layer 0 is over, the configurations of the scan have been
\* verified in turn up to the first one that verifies, and if any of them
\* verifies the extraction has returned success with layer 0
C20_Layer0TriesEvery ==
    scPc \in {"returned", "layer1"} =>
        LET verifying == {i \in 1..Len(scConfigs) : WouldVerify(i)}
        IN IF verifying = {}
           THEN scPc = "layer1" /\ scTried = [i \in 1..Len(scConfigs) |-> i]
           ELSE LET first == CHOOSE i \in verifying : \A j \in verifying : i <= j
                IN /\ scPc = "returned"
                   /\ scResult.success /\ scResult.layer = 0
                   /\ scTried = [i \in 1..first |-> i]

-----------------------------------------------------------------------------
(* Resource-type filter of analyze_requests *)

\* the candidate was built from a request that declares a resource type
\* other than script, xhr, fetch or document
OfOtherType(candidate) ==
    /\ candidate.resource_type \notin {"unknown", ""}
    /\ lower_resource_type(candidate.resource_type)
          \notin {"script", "xhr", "fetch", "document"}

\* C21: no candidate of analyze_requests comes from a request whose declared
\* resource type is other than script, xhr, fetch or document, be the request
\* in the list of all requests or in the API subset
C21_ResourceTypeFilter ==
    anPc = "analyzed" => \A i \in 1..Len(anCandidates) : ~OfOtherType(anCandidates[i])

-----------------------------------------------------------------------------
(* Item lists of a response *)

\* the lengths of the item lists of a response object: the lists under the
\* data keys, the lists one level below them, and pageHelp.data
ItemLists(obj) ==
    LET keys == {data_keys[i] : i \in 1..Len(data_keys)}
        top == {k \in keys \cap DOMAIN obj : obj[k].t = "list"}
        below == {k \in keys \cap DOMAIN obj : obj[k].t = "dict"}
        helped == K_pageHelp \in DOMAIN obj /\ obj[K_pageHelp].t = "dict"
    IN {Len(obj[k].l) : k \in top}
       \cup UNION {{Len(obj[k].obj[s].l) :
                       s \in {j \in keys \cap DOMAIN obj[k].obj : obj[k].obj[j].t = "list"}} :
                   k \in below}
       \cup (IF helped /\ K_data \in DOMAIN obj[K_pageHelp].obj
                       /\ obj[K_pageHelp].obj[K_data].t = "list"
             THEN {Len(obj[K_pageHelp].obj[K_data].l)} ELSE {})

\* the response is an object whose item lists are all empty
EmptyItemLists(data) ==
    /\ data # None /\ data.t = "dict"
    /\ ItemLists(data.obj) # {}
    /\ \A n \in ItemLists(data.obj) : n = 0

\* C22: a response whose item lists are all empty fails validation with
\* count 0, a positive pageHelp.total notwithstanding
C22_EmptyListFails ==
    (vlPc # "input" /\ EmptyItemLists(vlData)) =>
        ~vlValidation.is_valid /\ vlValidation.data_count = 0

-----------------------------------------------------------------------------
(* Items nested one level below a data key *)

\* the lengths of the non-empty lists one level below a data key of the object
NestedCounts(obj) ==
    LET keys == {data_keys[i] : i \in 1..Len(data_keys)}
    IN UNION {{Len(obj[k].obj[s].l) :
                  s \in {j \in keys \cap DOMAIN obj[k].obj :
                            obj[k].obj[j].t = "list" /\ Len(obj[k].obj[j].l) > 0}} :
              k \in {j \in keys \cap DOMAIN obj : obj[j].t = "dict"}}

\* the response is accepted as far as its success flag and its code go
NoFailureFlag(data) == ~HasSuccessFalse(data) /\ ~HasErrorCode(data)

\* C23: a response whose items are a list of n > 0 elements one level below a
\* data key validates with count n, whatever other data keys it has
C23_NestedItemCount ==
    (vlPc # "input" /\ vlData # None /\ vlData.t = "dict" /\ NoFailureFlag(vlData)
        /\ K_pageHelp \notin DOMAIN vlData.obj) =>
        \A n \in NestedCounts(vlData.obj) :
            vlValidation.is_valid /\ vlValidation.data_count = n

-----------------------------------------------------------------------------
(* Completeness of the replay substitution *)

\* the texts a parameter value holds: the string, or the elements of the list
texts_of(value) ==
    IF value.t = "list" THEN {str_of(value.l[i]) : i \in 1..Len(value.l)}
    ELSE {str_of(value)}

\* the values captured for the date parameter k, in the query of the
\* captured URL and in the captured parameters
CapturedValues(k) ==
    {rpCandidate.url.query[i][2] :
        i \in {j \in 1..Len(rpCandidate.url.query) : rpCandidate.url.query[j][1] = k}}
    \cup (IF k \in DOMAIN rpCandidate.params THEN texts_of(rpCandidate.params[k]) ELSE {})

\* the values the replayed request carries for k in its query
CarriedInQuery(k) ==
    {rpReplay.url.query[i][2] :
        i \in {j \in 1..Len(rpReplay.url.query) : rpReplay.url.query[j][1] = k}}

\* the values the replayed request carries for k in its body
CarriedInBody(k) ==
    IF k \in DOMAIN rpReplay.body THEN texts_of(rpReplay.body[k]) ELSE {}

\* the value the range gives to the date parameter k, by the name of k
RangeValues(k) ==
    LET f == rpCandidate.date_params[k]
        s == format_date(rpRange.start, f)
        e == format_date(rpRange.end, f)
        name == lower(k)
    IN IF HadArray(k) \/ name \in ArrayDateNames THEN {s, e}
       ELSE IF \E kw \in StartWords : Contains(name, kw) THEN {s}
       ELSE IF \E kw \in EndWords : Contains(name, kw) THEN {e}
       ELSE {s}

\* C24: the replayed request carries, for each recognized date parameter,
\* the value derived from the caller's range, and carries the captured value
\* of no recognized date parameter, neither in its query nor in its body
C24_ReplaySubstitutionComplete ==
    rpPc = "replayed" =>
        \A k \in DOMAIN rpCandidate.date_params :
            RangeValues(k) \cap CapturedValues(k) = {} =>
                /\ rpCandidate.method = "GET" =>
                      {quote_plus(v) : v \in RangeValues(k)} = CarriedInQuery(k)
                /\ rpCandidate.method = "POST" => RangeValues(k) = CarriedInBody(k)
                /\ CapturedValues(k) \cap (CarriedInQuery(k) \cup CarriedInBody(k)) = {}

-----------------------------------------------------------------------------
(* Array-valued date parameters *)

\* every element of the list is a string in one of the date value formats
AllDateStrings(l) ==
    \A i \in 1..Len(l) : l[i].t = "str" /\ value_format(strip(l[i].s)) # ""

\* C25: an array-valued parameter is among the date parameters only if every
\* element of the array is a date string
C25_ArrayEveryElement ==
    idPc # "input" =>
        \A k \in DOMAIN idResult :
            idParams[k].t = "list" => AllDateStrings(idParams[k].l)

-----------------------------------------------------------------------------
(* The date picker strategies of Layer 2: _operate_date_picker and what    *)
(* _try_layer2_dom_detect does with its value.  pkTried is the list of the *)
(* strategies that have run.                                               *)

\* the most candidates analyze_requests finds after the picker was operated
MaxNew == 2

PickerTypes ==
    {"laydate", "generic-input", "native", "element-ui", "ant-design", "bootstrap", "custom"}

\* a detected picker: its type and extra_info.get('isInput')
PkPickers == [picker_type : PickerTypes, isInput : BOOLEAN]

PkInit ==
    /\ pkPicker \in PkPickers
    /\ pkPc = IF pkPicker.isInput THEN "strategy0" ELSE "typed"
    /\ pkTried = <<>>
    /\ pkError = ""
    /\ pkNew = 0
    /\ PkOthersIdle

\* _operate_date_picker returned False: the layer returns its failure
PkOperateFailed ==
    /\ pkPc' = "failed"
    /\ pkError' = "operating the date picker failed"

\* _operate_date_picker returned True: the layer waits for the network
PkOperated ==
    /\ pkPc' = "wait"
    /\ pkError' = pkError

\* _operate_fill_and_submit gives False when no date input is found or a
\* step raises, and True once the inputs are filled and the submit button or
\* the Enter key is pressed: filled below is that value

\* strategy 0: fill + submit on any picker that is an input
FillAndSubmit0 ==
    /\ pkPc = "strategy0"
    /\ pkTried' = Append(pkTried, "fill+submit")
    /\ \E filled \in BOOLEAN :
          IF filled
          THEN PkOperated
          ELSE pkPc' = "typed" /\ pkError' = pkError
    /\ UNCHANGED <<pkPicker, pkNew, pkOthers>>

\* the strategy chosen by picker_type
TypedStrategy ==
    /\ pkPc = "typed"
    /\ \E done \in BOOLEAN :
          IF pkPicker.picker_type \in {"element-ui", "ant-design"}
          THEN /\ pkTried' = Append(pkTried, "modern picker")
               /\ IF done THEN PkOperated ELSE PkOperateFailed
          ELSE /\ pkTried' = Append(pkTried, "fill+submit")
               /\ IF done THEN PkOperated
                  ELSE IF pkPicker.picker_type = "laydate"
                  THEN pkPc' = "laydate" /\ pkError' = pkError
                  ELSE IF pkPicker.picker_type = "bootstrap"
                  THEN pkPc' = "click" /\ pkError' = pkError
                  ELSE PkOperateFailed
    /\ UNCHANGED <<pkPicker, pkNew, pkOthers>>

\* _operate_laydate: the calendar is opened and the days are clicked
OperateLaydate ==
    /\ pkPc = "laydate"
    /\ pkTried' = Append(pkTried, "calendar")
    /\ \E done \in BOOLEAN : IF done THEN PkOperated ELSE PkOperateFailed
    /\ UNCHANGED <<pkPicker, pkNew, pkOthers>>

\* bootstrap: the trigger is clicked, or the click raises; False either way
ClickTrigger ==
    /\ pkPc = "click"
    /\ pkTried' = Append(pkTried, "click trigger")
    /\ PkOperateFailed
    /\ UNCHANGED <<pkPicker, pkNew, pkOthers>>

\* the wait for the network and the analysis of the captured requests: n is
\* the number of candidates, -1 stands for a collaborator that raises
WaitAndAnalyse ==
    /\ pkPc = "wait"
    /\ \E n \in -1..MaxNew :
          /\ pkNew' = Max(n, 0)
          /\ pkPc' = IF n > 0 THEN "verify" ELSE "failed"
          /\ pkError' = IF n > 0 THEN pkError
                        ELSE IF n = 0
                        THEN "no new date API request after operating the picker"
                        ELSE "layer 2 raised"
    /\ UNCHANGED <<pkPicker, pkTried, pkOthers>>

PkNext ==
    \/ FillAndSubmit0
    \/ TypedStrategy
    \/ OperateLaydate
    \/ ClickTrigger
    \/ WaitAndAnalyse

SpecPicker == PkInit /\ [][PkNext]_vars

\* the strategy has run
Tried(strategy) == \E i \in 1..Len(pkTried) : pkTried[i] = strategy

\* C26: with a calendar-popup picker, Layer 2 does not report failure before
\* the calendar strategy has run, be it that fill + submit did not apply or
\* that it was carried out and no new request was captured
C26_CalendarFallback ==
    (pkPc = "failed" /\ pkPicker.picker_type = "laydate"
        /\ pkError # "layer 2 raised") => Tried("calendar")

-----------------------------------------------------------------------------
(* The acceptance of the winner of Layers 2 and 3 *)

\* C27: the best candidate of a success of Layer 2 or Layer 3 has a non-zero
\* item count and passes the sanity filter _looks_like_real_date_filter
C27_SamePipeline ==
    (Returned /\ result.success /\ result.layer \in {2, 3}) =>
        /\ result.best_candidate # None
        /\ result.data_count > 0
        /\ passes_sanity_check(result.best_candidate)

-----------------------------------------------------------------------------
(* POST bodies as the network listener records them *)

\* req is among the analysed requests
Analysed_request(req) ==
    \/ \E i \in 1..Len(anRequests.all_requests) : anRequests.all_requests[i] = req
    \/ \E i \in 1..Len(anRequests.api_requests) : anRequests.api_requests[i] = req

\* a candidate of the request has the start and end date of the body among
\* its date parameters
BodyDatesFound(req) ==
    \E i \in 1..Len(anCandidates) :
        /\ anCandidates[i].url = req.url
        /\ {K_startDate, K_endDate} \subseteq DOMAIN anCandidates[i].date_params

\* C28: a POST recorded by the network listener, with startDate and endDate
\* in its JSON body and no date in its URL, becomes a candidate whose date
\* parameters include the two body parameters
C28_PostBodyAnalysed ==
    (anPc = "analyzed" /\ Analysed_request(R_body_recorded)) =>
        BodyDatesFound(R_body_recorded)

-----------------------------------------------------------------------------
(* The scan script of Layer 0: the JavaScript of _execute_global_var_scan. *)
(* The page's window is the sequence of its global variables in the order  *)
(* of Object.keys, each <<name, value>>; an object is a Dict.              *)

\* the most global variables of a page
MaxVars == 2

G_START_DATE == <<"S","T","A","R","T","_","D","A","T","E">>
G_END_DATE == <<"E","N","D","_","D","A","T","E">>
G_start == <<"s","t","a","r","t">>
G_end == <<"e","n","d">>
G_url == <<"u","r","l">>
G_queryUrl == <<"q","u","e","r","y","U","r","l">>
G_params == <<"p","a","r","a","m","s">>
Host_szse == <<"s","z","s","e",".","c","n">>
Host_cninfo == <<"c","n","i","n","f","o",".","c","o","m",".","c","n">>

\* KNOWN_SITE_PATTERNS, in the order of the dict: <<domain, pattern>>
KNOWN_SITE_PATTERNS == <<
    <<Host_sse, [global_vars |-> <<<<"L","a","t","e","s","t","A","n","n","o","u","n","c","e","m","e","n","t">>, <<"q","u","e","r","y","C","o","n","f","i","g","D","a","t","a">>,
                                   <<"a","n","n","o","u","n","c","e","m","e","n","t","S","u","m","D","e","t","a","i","l">>>>,
                 date_params |-> <<G_START_DATE, G_END_DATE>>]>>,
    <<Host_szse, [global_vars |-> <<<<"f","l","a","g","O","b","j">>, <<"p","l","u","g","i","n","O","b","j">>, <<"q","u","e","r","y","P","a","r","a","m","s">>, V_searchConfig>>,
                  date_params |-> <<K_seDate, K_startDate, K_endDate, G_start, G_end>>]>>,
    <<Host_cninfo, [global_vars |-> <<<<"p","a","g","e","C","o","n","f","i","g">>, <<"s","e","a","r","c","h","P","a","r","a","m","s">>>>,
                    date_params |-> <<K_seDate, <<"s","e","D","a","t","e","_">>>>]>> >>

\* the pattern of the first domain found in the URL of the page, else None
known_pattern_of(current_url) ==
    LET hits == {i \in 1..Len(KNOWN_SITE_PATTERNS) :
                    Contains(current_url, KNOWN_SITE_PATTERNS[i][1])}
    IN IF hits = {} THEN None
       ELSE KNOWN_SITE_PATTERNS[CHOOSE i \in hits : \A j \in hits : i <= j][2]

\* known_pattern.get('global_vars', []) and .get('date_params', [])
known_vars_of(known_pattern) ==
    IF known_pattern = None THEN <<>> ELSE known_pattern.global_vars
known_date_params_of(known_pattern) ==
    IF known_pattern = None THEN <<>> ELSE known_pattern.date_params

\* the list after || in the script
DefaultDateParamPatterns == <<
    G_START_DATE, G_END_DATE, K_startDate, K_endDate, <<"s","t","a","r","t","_","d","a","t","e">>, <<"e","n","d","_","d","a","t","e">>,
    <<"b","e","g","i","n","D","a","t","e">>, <<"f","r","o","m","D","a","t","e">>, <<"t","o","D","a","t","e">>, <<"s","e","a","r","c","h","D","a","t","e">>, <<"q","u","e","r","y","D","a","t","e">>, W_date,
    <<"d","a","t","e","F","r","o","m">>, <<"d","a","t","e","T","o">> >>

\* the truth value of a JavaScript array: an array is an object, and every
\* object is truthy, the empty array included
js_truthy_array(a) == TRUE

\* const dateParamPatterns = <json.dumps(known_date_params)> || [...]
dateParamPatterns(known_date_params) ==
    IF js_truthy_array(known_date_params) THEN known_date_params
    ELSE DefaultDateParamPatterns

apiUrlPatterns == {W_dot_do, <<"/","a","p","i","/">>, <<"/","q","u","e","r","y">>, <<"/","s","e","a","r","c","h">>, <<"/","l","i","s","t">>, W_dot_json, K_jsonCallBack}
NotApiSuffixes == {<<".","h","t","m","l">>, <<".","h","t","m">>, <<".","c","s","s">>, <<".","j","s">>, <<".","p","n","g">>, <<".","j","p","g">>}

isApiUrl(str) ==
    /\ startswith(str, W_http) \/ startswith(str, <<"/">>)
    /\ ~\E suffix \in NotApiSuffixes : endswith(str, suffix)
    /\ \E p \in apiUrlPatterns : Contains(str, p)

\* the keys of obj that equal or contain a pattern; the script compares in
\* upper case, which for these names is the same as comparing in lower case
findDateParams(obj, patterns) ==
    LET keys == {k \in DOMAIN obj :
                    \E i \in 1..Len(patterns) : Contains(lower(k), lower(patterns[i]))}
    IN [k \in keys |-> obj[k]]

urlKeys == <<<<"h","i","s","t","o","r","y","U","r","l">>, G_queryUrl, <<"s","e","a","r","c","h","U","r","l">>, <<"l","i","s","t","U","r","l">>, <<"a","n","n","o","u","n","c","e","U","r","l">>, <<"r","e","q","u","e","s","t","U","r","l">>,
             <<"s","e","r","v","i","c","e","U","r","l">>, <<"e","n","d","p","o","i","n","t">>, G_url, <<"U","r","l">>, <<"U","R","L">>, W_api, <<"A","p","i">>, <<"A","P","I">>,
             <<"s","e","l","f","U","r","l">>, <<"d","a","t","a","U","r","l">>, <<"a","j","a","x","U","r","l">>>>
paramKeys == <<<<"p","a","r","a","m">>, <<"P","a","r","a","m">>, G_params, <<"P","a","r","a","m","s">>, W_data, <<"D","a","t","a">>, <<"a","n","n","o","u","n","c","e","P","a","r","a","m">>,
               <<"q","u","e","r","y","P","a","r","a","m">>, <<"s","e","a","r","c","h","P","a","r","a","m">>>>

\* the loop over urlKeys from index i: a history, query or search key wins at
\* once, else the first API URL found is kept as the fallback
RECURSIVE url_field(_, _, _)
url_field(obj, i, fallbackUrl) ==
    IF i > Len(urlKeys) THEN fallbackUrl
    ELSE LET key == urlKeys[i]
             usable == /\ key \in DOMAIN obj
                       /\ obj[key].t = "str" /\ obj[key].s # <<>>
                       /\ isApiUrl(obj[key].s)
             preferred == \E w \in {W_history, W_query, W_search} : Contains(lower(key), w)
         IN IF usable /\ preferred THEN obj[key].s
            ELSE url_field(obj, i + 1,
                           IF usable /\ fallbackUrl = None THEN obj[key].s ELSE fallbackUrl)

\* no URL under the URL keys: the first string field of the object that is an
\* API URL; the objects checked have at most one such field, so the order of
\* Object.keys does not matter
any_url_field(obj) ==
    LET fields == {k \in DOMAIN obj : obj[k].t = "str" /\ isApiUrl(obj[k].s)}
    IN IF fields = {} THEN None ELSE obj[CHOOSE k \in fields : TRUE].s

\* the first parameter field that holds an object, else the object itself
\* when it has date parameters, else None
param_object(obj, patterns) ==
    LET fields == {i \in 1..Len(paramKeys) :
                      paramKeys[i] \in DOMAIN obj /\ obj[paramKeys[i]].t = "dict"}
    IN IF fields # {}
       THEN obj[paramKeys[CHOOSE i \in fields : \A j \in fields : i <= j]].obj
       ELSE IF DOMAIN findDateParams(obj, patterns) # {} THEN obj
       ELSE None

\* None when the object has no API URL under the URL keys
extractApiConfig(varName, obj, patterns, source) ==
    LET config(apiUrl, paramObj) ==
            IF apiUrl = None THEN None
            ELSE [var_name |-> varName,
                  api_url |-> apiUrl,
                  date_params |-> IF paramObj = None THEN EmptyDict
                                  ELSE findDateParams(paramObj, patterns),
                  all_params |-> IF paramObj = None THEN EmptyDict ELSE paramObj,
                  is_jsonp |-> Contains(apiUrl, K_jsonCallBack) \/ Contains(apiUrl, K_callback),
                  date_format |-> "YYYY-MM-DD",
                  extra_info |-> [source |-> source]]
    IN config(IF url_field(obj, 1, None) # None THEN url_field(obj, 1, None)
              ELSE any_url_field(obj),
              param_object(obj, patterns))

ScanKeywords == {W_url, W_api, W_query, <<"p","a","r","a","m">>, <<"c","o","n","f","i","g">>, W_search, <<"a","n","n","o","u","n","c","e">>, W_bulletin,
                 W_disclosure, <<"r","e","p","o","r","t">>, <<"n","e","w","s">>, W_list}

\* window[varName]: the value of the global variable, None when undefined
window_value(window, varName) ==
    LET at == {i \in 1..Len(window) : window[i][1] = varName}
    IN IF at = {} THEN None ELSE window[CHOOSE i \in at : TRUE][2]

\* the configurations of the variables named, from index i on, in the order
\* of the names
RECURSIVE scanned_configs(_, _, _, _, _)
scanned_configs(window, varNames, i, patterns, source) ==
    IF i > Len(varNames) THEN <<>>
    ELSE LET found(config) == IF config = None THEN <<>> ELSE <<config>>
             val == window_value(window, varNames[i])
         IN (IF val # None /\ val.t = "dict"
             THEN found(extractApiConfig(varNames[i], val.obj, patterns, source))
             ELSE <<>>)
            \o scanned_configs(window, varNames, i + 1, patterns, source)

\* the value of the script: the known variables first, and the variables
\* whose name holds a keyword when none of the known ones gave a configuration
scan_script(window, known_pattern) ==
    LET patterns == dateParamPatterns(known_date_params_of(known_pattern))
        knownVars == known_vars_of(known_pattern)
        keys == [i \in 1..Len(window) |-> window[i][1]]
        hasKeyword(key) == \E kw \in ScanKeywords : Contains(lower(key), kw)
        known == scanned_configs(window, knownVars, 1, patterns, "known_pattern")
        generic == scanned_configs(window, SelectSeq(keys, hasKeyword), 1, patterns,
                                   "generic_scan")
        reported(api_configs) == ScanResult(api_configs # <<>>, ErrNone, api_configs)
    IN reported(IF known # <<>> THEN known ELSE generic)

GsHosts == {Host_site, Host_sse, Host_szse}
GsNames == {V_searchConfig, <<"q","u","e","r","y","C","o","n","f","i","g","D","a","t","a">>, <<"f","o","o">>}

GsDates(start, end) ==
    [k \in {start, end, K_pageNo} |-> IF k = K_pageNo THEN IntV(V_1) ELSE Str(<<>>)]

\* the parameter objects of a page
GsParams == {GsDates(K_startDate, K_endDate), GsDates(G_START_DATE, G_END_DATE),
             [k \in {K_pageNo} |-> IntV(V_1)]}

G_action == <<"a","c","t","i","o","n">>

\* page objects: a URL field with a sibling parameter object, a URL field
\* next to the parameters themselves, an object whose URL is a page, and one
\* whose URL is under a name that is no URL key
GsObjects ==
    {Dict([k \in {G_action, G_params} |->
              IF k = G_action THEN Str(<<"/","x","/","l","i","s","t",".","d","o">>)
              ELSE Dict(GsDates(G_START_DATE, G_END_DATE))])} \cup
    {Dict([k \in {G_url, G_params} |->
              IF k = G_url THEN Str(<<"/","a","p","i","/","q","u","e","r","y">>) ELSE Dict(p)]) : p \in GsParams}
    \cup {Dict([k \in {G_queryUrl} \cup DOMAIN p |->
                   IF k = G_queryUrl THEN Str(<<"/","x","/","l","i","s","t",".","d","o">>) ELSE p[k]]) : p \in GsParams}
    \cup {Dict([k \in {G_url, G_params} |->
                   IF k = G_url THEN Str(<<"/","i","n","d","e","x",".","h","t","m","l">>)
                   ELSE Dict(GsDates(K_startDate, K_endDate))])}

GsInit ==
    /\ gsPc = "page"
    /\ gsUrl \in GsHosts
    /\ gsWindow \in UNION {[1..n -> {<<name, obj>> : name \in GsNames, obj \in GsObjects}] :
                              n \in 0..MaxVars}
    /\ \A i, j \in 1..Len(gsWindow) : gsWindow[i][1] = gsWindow[j][1] => i = j
    /\ gsResult = None
    /\ GsOthersIdle

\* result = await page.evaluate(js_code)
GsScan ==
    /\ gsPc = "page"
    /\ gsResult' = scan_script(gsWindow, known_pattern_of(gsUrl))
    /\ gsPc' = "scanned"
    /\ UNCHANGED <<gsUrl, gsWindow, gsOthers>>

\* page.evaluate raises: {'found': False, 'error': str(e)}
GsScanRaises ==
    /\ gsPc = "page"
    /\ gsResult' = ScanResult(FALSE, "evaluate raised", <<>>)
    /\ gsPc' = "scanned"
    /\ UNCHANGED <<gsUrl, gsWindow, gsOthers>>

GsNext == GsScan \/ GsScanRaises

SpecScan == GsInit /\ [][GsNext]_vars

\* the global variable has an API-shaped URL field and a sibling parameter
\* object with a start and an end date key
HasUrlAndDates(obj, start, end) ==
    /\ G_url \in DOMAIN obj /\ obj[G_url].t = "str" /\ isApiUrl(obj[G_url].s)
    /\ G_params \in DOMAIN obj /\ obj[G_params].t = "dict"
    /\ {start, end} \subseteq DOMAIN obj[G_params].obj

\* the scan reports a configuration of the variable with these date parameters
ReportsDates(name, start, end) ==
    \E i \in 1..Len(gsResult.api_configs) :
        /\ gsResult.api_configs[i].var_name = name
        /\ {start, end} \subseteq DOMAIN gsResult.api_configs[i].date_params

\* C29: on a page of no known site, a scanned global object with an
\* API-shaped URL field and a sibling parameter object with the keys
\* startDate and endDate, or START_DATE and END_DATE, is reported with
\* those keys as its date parameters
C29_DefaultDateNames ==
    (gsPc = "scanned" /\ gsResult.error = ErrNone /\ known_pattern_of(gsUrl) = None) =>
        \A i \in 1..Len(gsWindow) :
            \A names \in {<<K_startDate, K_endDate>>, <<G_START_DATE, G_END_DATE>>} :
                (/\ \E kw \in ScanKeywords : Contains(lower(gsWindow[i][1]), kw)
                 /\ HasUrlAndDates(gsWindow[i][2].obj, names[1], names[2]))
                    => ReportsDates(gsWindow[i][1], names[1], names[2])

-----------------------------------------------------------------------------
(* The consistency of the result of extract_with_three_layers *)

\* the result is one of a success: a winning layer, its candidate, a positive
\* item count and the record of the winning layer, itself a success
ConsistentSuccess(r) ==
    /\ r.layer \in 0..3
    /\ r.best_candidate # None
    /\ r.data_count > 0
    /\ LET record == IF r.layer = 0 THEN r.layer0_result
                     ELSE IF r.layer = 1 THEN r.layer1_result
                     ELSE IF r.layer = 2 THEN r.layer2_result
                     ELSE r.layer3_result
       IN record # None /\ record.success

\* the result is one of a failure: no layer, no candidate, no item, an error
ConsistentFailure(r) ==
    /\ r.layer = -1
    /\ r.best_candidate = None
    /\ r.data_count = 0
    /\ r.error # ErrNone /\ r.error # ""

\* C30: every result returned has success = true exactly when its layer is
\* one of 0, 1, 2, 3; a success has its best candidate, a positive data_count
\* and the record of the winning layer with success = true; a failure has
\* layer -1, no best candidate, data_count 0 and its error set
C30_ResultConsistency ==
    Returned =>
        /\ result.success <=> result.layer \in 0..3
        /\ result.success => ConsistentSuccess(result)
        /\ ~result.success => ConsistentFailure(result)

\* a success and a failure have both been returned in the behaviours checked
C30_Witness ==
    Returned /\ result.success /\ result.layer = 2 /\ ConsistentSuccess(result)

C30_WitnessFailure ==
    Returned /\ ~result.success /\ ConsistentFailure(result)
====
